---- MODULE Spec2Model ----
(***************************************************************************)
(* Arcent x402 gateway: the /agent/x402 atomic-settlement handler, the     *)
(* Arc x402 paywall middleware, the /proxy/:apiId replay guard and the     *)
(* processX402Payment facilitator.                                         *)
(*                                                                         *)
(* Amounts are integers in micro-USDC (1e-6 USDC), the unit of             *)
(* maxAmountRequired and of authorization.value.  Optional values          *)
(* (undefined in the source) are sets of at most one element.              *)
(***************************************************************************)
EXTENDS Integers, Sequences, FiniteSets, TLC

VARIABLES
    env,            \* process.env: DEMO_WALLET_ADDRESS, EXECUTOR_PRIVATE_KEY
    now,            \* Math.floor(Date.now() / 1000)
    agent,          \* locals of the running /agent/x402 handler
    reqCount,       \* /agent/x402 requests started
    providerStats,  \* gateway: providerStats
    chainTxs,       \* calls that submit a transaction to the chain, in order
    transactions,   \* db: rows of the transactions table
    served,         \* paywall: times an authorization (from, nonce) was let through
    lastReq,        \* paywall: the last request to an x402 route and its outcome
    usedTxHashes,   \* gateway: usedTxHashes
    payments,       \* gateway: payments
    apis,           \* gateway: apis (totalCalls, totalEarnings of the API)
    proxy,          \* locals of the running /proxy/:apiId handlers
    authorizationState, \* USDC contract: authorizationState(authorizer, nonce)
    fac,            \* locals of the running processX402Payment calls
    db,             \* db: the provider_stats table and the statements in flight
    startup,        \* gateway: the startup load of the persisted provider stats
    lastCall,       \* the last call of a preflight check or score function
    rateLimit       \* gateway: rateLimit, and the requests rateLimitMiddleware saw

vars == <<env, now, agent, reqCount, providerStats, chainTxs, transactions,
          served, lastReq, usedTxHashes, payments, apis, proxy,
          authorizationState, fac, db, startup, lastCall, rateLimit>>

----------------------------------------------------------------------------
(* Bounds *)

MaxRequests == 2        \* /agent/x402 requests in a run
MaxServed == 2          \* paywall acceptances counted per authorization
MaxPayments == 3        \* accepted /proxy payments in a run

----------------------------------------------------------------------------
(* Values *)

None == {}
Some(x) == {x}
Get(o) == CHOOSE x \in o : TRUE

\* Addresses; "0xDD" is the checksummed spelling of "0xdd".
DemoWalletAddress == "0xDD"
DemoWalletLower == "0xdd"
ExecutorAddress == "0xee"
OtherAddress == "0xcc"
UnknownSigner == "0x??"

toLowerCase(a) == IF a = DemoWalletAddress THEN DemoWalletLower ELSE a

Providers == {"crypto", "weather", "translation", "summarization", "sentiment", "general"}

\* selectedApi -> apiUrl path under /x402
apiUrl(selectedApi) ==
    CASE selectedApi = "crypto" -> "/crypto"
      [] selectedApi = "weather" -> "/weather"
      [] selectedApi = "summarization" -> "/summarize"
      [] selectedApi = "sentiment" -> "/sentiment"
      [] selectedApi = "general" -> "/general"
      [] OTHER -> "/translate"

Routes == {"/translate", "/summarize", "/sentiment", "/general", "/crypto", "/weather"}

\* x402Config[route].price, as Math.floor(config.price * 1e6)
x402Config(route) ==
    CASE route = "/translate" -> 10000
      [] route = "/summarize" -> 20000
      [] route = "/sentiment" -> 5000
      [] route = "/general" -> 15000
      [] route = "/crypto" -> 5000
      [] route = "/weather" -> 2000

----------------------------------------------------------------------------
(* EIP-712 typed data and signatures *)

ARC_CHAIN_ID == 5042002
BASE_SEPOLIA_CHAIN_ID == 84532
USDC_CONTRACT == "0x036CbD"
VALIDITY_WINDOW == 600

\* The domain verifySignature checks against.
VerifierDomain ==
    [name |-> "USDC", version |-> "2", chainId |-> ARC_CHAIN_ID,
     verifyingContract |-> USDC_CONTRACT]

\* The typed-data encoding of a message: addresses are encoded by value,
\* whatever their letter case.
Digest(domain, message) ==
    [domain |-> domain,
     message |-> [message EXCEPT !.from = toLowerCase(@), !.to = toLowerCase(@)]]

\* A signature by signer over typedData.
Sign(signer, typedData) ==
    [wellFormed |-> TRUE, signer |-> signer,
     digest |-> Digest(typedData.domain, typedData.message)]

\* ethers.verifyTypedData: the signer when the signature is over this
\* digest, an unrelated address otherwise.
verifyTypedData(domain, message, sig) ==
    IF sig.digest = Digest(domain, message) THEN sig.signer ELSE UnknownSigner

\* x402Client.buildTransferAuthorization
buildTransferAuthorization(from, to, value, chainId, nonce, t) ==
    [domain |-> [name |-> "USDC", version |-> "2", chainId |-> chainId,
                 verifyingContract |-> USDC_CONTRACT],
     message |-> [from |-> from, to |-> to, value |-> value,
                  validAfter |-> t, validBefore |-> t + VALIDITY_WINDOW,
                  nonce |-> nonce]]

\* x402Client.buildXPaymentHeader: base64(JSON.stringify(payload)).  The
\* header text is modelled by the JSON document it encodes (wellFormed =
\* FALSE: text that is not base64 of JSON); a key whose value is undefined
\* is left out by JSON.stringify, an absent key reads back as undefined.
buildXPaymentHeader(signature, typedData, network) ==
    [wellFormed |-> TRUE, x402Version |-> 1, scheme |-> "exact", network |-> network,
     payload |-> Some([signature |-> signature,
                       authorization |->
                           Some([from |-> typedData.message.from,
                                 to |-> typedData.message.to,
                                 value |-> typedData.message.value,
                                 validAfter |-> typedData.message.validAfter,
                                 validBefore |-> typedData.message.validBefore,
                                 nonce |-> typedData.message.nonce])])]

\* decodeXPaymentHeader reading the signature from the top level of the
\* document, where buildXPaymentHeader does not put it.
decodeXPaymentHeaderTopLevel(xPaymentHeader) ==
    IF xPaymentHeader.wellFormed
    THEN [ok |-> TRUE, version |-> xPaymentHeader.x402Version,
          scheme |-> xPaymentHeader.scheme, network |-> xPaymentHeader.network,
          signature |-> None,
          authorization |-> IF xPaymentHeader.payload = None THEN None
                            ELSE Get(xPaymentHeader.payload).authorization]
    ELSE [ok |-> FALSE, version |-> 0, scheme |-> "", network |-> "",
          signature |-> None, authorization |-> None]

\* arcVerifier.decodeXPaymentHeader; ok = FALSE is the thrown Error.
\* payload.payload?.signature and payload.payload?.authorization are
\* undefined (None) when the document has no `payload'.
decodeXPaymentHeader(xPaymentHeader) ==
    IF xPaymentHeader.wellFormed
    THEN [ok |-> TRUE, version |-> xPaymentHeader.x402Version,
          scheme |-> xPaymentHeader.scheme, network |-> xPaymentHeader.network,
          signature |-> IF xPaymentHeader.payload = None THEN None
                        ELSE Get(xPaymentHeader.payload).signature,
          authorization |-> IF xPaymentHeader.payload = None THEN None
                            ELSE Get(xPaymentHeader.payload).authorization]
    ELSE [ok |-> FALSE, version |-> 0, scheme |-> "", network |-> "",
          signature |-> None, authorization |-> None]

\* A string that is not an address; ethers rejects it in a typed-data message.
NotAnAddress == "nope"

isAddress(a) == a # NotAnAddress

\* verifySignatureTry comparing the addresses as spelled.
verifySignatureTryCaseSensitive(authorization, signature) ==
    IF signature = None \/ authorization = None
    THEN [threw |-> TRUE, valid |-> FALSE, error |-> FALSE]
    ELSE IF ~Get(signature).wellFormed
    THEN [threw |-> TRUE, valid |-> FALSE, error |-> FALSE]
    ELSE IF ~isAddress(Get(authorization).from) \/ ~isAddress(Get(authorization).to)
    THEN [threw |-> TRUE, valid |-> FALSE, error |-> FALSE]
    ELSE [threw |-> FALSE,
          valid |-> verifyTypedData(VerifierDomain, Get(authorization), Get(signature))
                      = Get(authorization).from,
          error |-> FALSE]

\* arcVerifier.verifySignature, the statements of its try block; threw = TRUE
\* is an error thrown by one of them (ethers.Signature.from on a missing or
\* malformed signature, authorization.from of undefined, verifyTypedData on
\* a message that cannot be encoded).
verifySignatureTry(authorization, signature) ==
    IF signature = None \/ authorization = None
    THEN [threw |-> TRUE, valid |-> FALSE, error |-> FALSE]
    ELSE IF ~Get(signature).wellFormed
    THEN [threw |-> TRUE, valid |-> FALSE, error |-> FALSE]
    ELSE IF ~isAddress(Get(authorization).from) \/ ~isAddress(Get(authorization).to)
    THEN [threw |-> TRUE, valid |-> FALSE, error |-> FALSE]
    ELSE [threw |-> FALSE,
          valid |-> toLowerCase(verifyTypedData(VerifierDomain, Get(authorization), Get(signature)))
                      = toLowerCase(Get(authorization).from),
          error |-> FALSE]

\* try { ... } catch (error) { return { valid: false, error } }
catchInvalid(r) ==
    IF r.threw THEN [threw |-> FALSE, valid |-> FALSE, error |-> TRUE] ELSE r

\* verifySignature letting the errors of its try block escape.
verifySignatureUncaught(authorization, signature) ==
    verifySignatureTry(authorization, signature)

\* arcVerifier.verifySignature
verifySignature(authorization, signature) ==
    catchInvalid(verifySignatureTry(authorization, signature))

\* arcExecutor.verifySignature(typedData, signature, expectedSigner), the
\* statements of its try block: the domain is the one the typed data carries.
executorVerifySignatureTry(typedData, signature, expectedSigner) ==
    IF typedData = None \/ signature = None \/ expectedSigner = None
    THEN [threw |-> TRUE, valid |-> FALSE, error |-> FALSE]
    ELSE IF ~Get(signature).wellFormed
    THEN [threw |-> TRUE, valid |-> FALSE, error |-> FALSE]
    ELSE IF ~isAddress(Get(typedData).message.from) \/ ~isAddress(Get(typedData).message.to)
    THEN [threw |-> TRUE, valid |-> FALSE, error |-> FALSE]
    ELSE [threw |-> FALSE,
          valid |-> toLowerCase(verifyTypedData(Get(typedData).domain, Get(typedData).message,
                                                Get(signature)))
                      = toLowerCase(Get(expectedSigner)),
          error |-> FALSE]

\* arcExecutor.verifySignature
executorVerifySignature(typedData, signature, expectedSigner) ==
    catchInvalid(executorVerifySignatureTry(typedData, signature, expectedSigner))

\* arcVerifier.validateX402Payment: the signature is the only thing checked.
validateX402Payment(xPaymentHeader, expectedRecipient, expectedAmount) ==
    LET payment == decodeXPaymentHeader(xPaymentHeader) IN
    IF ~payment.ok THEN [valid |-> FALSE, error |-> TRUE]
    ELSE [valid |-> verifySignature(payment.authorization, payment.signature).valid,
          error |-> FALSE]

----------------------------------------------------------------------------
(* x402Router service handlers: the JSON bodies they can return *)

\* What a field of the response body holds: nothing (or a falsy value), a
\* string without an error word, a string containing 'could not process',
\* 'failed' or 'error', or a truthy non-string.
Absent == "absent"
Str == "str"
ErrStr == "errstr"
Num == "num"

EmptyBody ==
    [result |-> Absent, translation |-> Absent, sentiment |-> Absent,
     temperature |-> Absent, price |-> Absent, city |-> Absent, model |-> "none"]

\* x402Router.post('/translate' | '/summarize' | '/sentiment' | '/general' |
\* '/crypto' | '/weather'): every res.json(...) of the handler.
HandlerBodies(route) ==
    CASE route = "/translate" ->
            \* the result embeds the caller's text or Gemini's answer
            { [EmptyBody EXCEPT !.result = r, !.model = m] :
                r \in {Str, ErrStr}, m \in {"demo", "gemini", "fallback"} }
      [] route = "/summarize" ->
            { [EmptyBody EXCEPT !.result = Str, !.model = "demo"],
              [EmptyBody EXCEPT !.result = Str, !.model = "gemini"],
              [EmptyBody EXCEPT !.result = ErrStr, !.model = "gemini"],
              [EmptyBody EXCEPT !.result = Str, !.model = "fallback"] }
      [] route = "/sentiment" ->
            { [EmptyBody EXCEPT !.sentiment = Str, !.model = "demo"],
              \* {...JSON.parse(result), model, paid}: whatever Gemini returned
              [EmptyBody EXCEPT !.sentiment = Str, !.model = "gemini"],
              [EmptyBody EXCEPT !.model = "gemini"],
              [EmptyBody EXCEPT !.result = Str, !.model = "gemini"],
              [EmptyBody EXCEPT !.result = ErrStr, !.model = "gemini"],
              [EmptyBody EXCEPT !.sentiment = Str, !.model = "fallback"] }
      [] route = "/general" ->
            { [EmptyBody EXCEPT !.result = Str, !.model = "demo"],
              [EmptyBody EXCEPT !.result = Str, !.model = "gemini"],
              [EmptyBody EXCEPT !.result = ErrStr, !.model = "gemini"],
              [EmptyBody EXCEPT !.result = ErrStr, !.model = "fallback"] }
      [] route = "/crypto" ->
            { [EmptyBody EXCEPT !.price = Num],
              EmptyBody,        \* data[coin] without a price in this currency
              [EmptyBody EXCEPT !.result = Str, !.model = "fallback"],
              [EmptyBody EXCEPT !.result = ErrStr, !.model = "fallback"] }
      [] route = "/weather" ->
            { [EmptyBody EXCEPT !.city = Str, !.temperature = Str],
              [EmptyBody EXCEPT !.result = Str, !.model = "fallback"],
              [EmptyBody EXCEPT !.result = ErrStr, !.model = "fallback"] }

\* /agent/x402: resultContent
resultContent(apiResult) ==
    IF apiResult.result # Absent THEN apiResult.result
    ELSE IF apiResult.translation # Absent THEN apiResult.translation
    ELSE IF apiResult.sentiment # Absent THEN apiResult.sentiment
    ELSE IF apiResult.temperature # Absent THEN apiResult.temperature
    ELSE IF apiResult.price # Absent THEN apiResult.price
    ELSE Str    \* '': a string without an error word

\* /agent/x402: hasValidContent
hasValidContent(apiResult) ==
    \/ apiResult.temperature # Absent
    \/ apiResult.price # Absent
    \/ apiResult.translation # Absent
    \/ apiResult.sentiment # Absent
    \/ apiResult.result # Absent
    \/ apiResult.city # Absent

\* /agent/x402: isErrorResult
isErrorResult(apiResult) ==
    \/ (~hasValidContent(apiResult) /\ apiResult.model = "fallback")
    \/ resultContent(apiResult) = ErrStr

\* response.ok
ok(status) == status \in 200..299

\* settlementReleased without the result validation.
settlementReleasedUnvalidated(status, apiResult) ==
    ok(status)

\* /agent/x402: the two guards between the paid service call and the
\* settlement (if (!serviceResponse.ok) return; if (isErrorResult) return).
settlementReleased(status, apiResult) ==
    ok(status) /\ ~isErrorResult(apiResult)

----------------------------------------------------------------------------
(* POST /agent/x402 *)

Budgets == {1000, 1000000}          \* req.body.budget
Balances == {0, 5000000}            \* balances the RPC can report
Latencies == {1, 2}                 \* serviceLatency, in ms

\* The handler's locals before a request.
AgentIdle ==
    [pc |-> "idle", selectedApi |-> "translation", budget |-> 0,
     wallet |-> None, requirement |-> None, typedData |-> None,
     signature |-> None, status |-> 0, fetchError |-> FALSE,
     paywallPassed |-> FALSE, apiResult |-> None,
     txResult |-> "none", totalSpent |-> 0, statsCalls |-> 0, res |-> None,
     executorInfo |-> "none", balanceCheck |-> None, paidCalls |-> 0,
     requestBody |-> None, fetches |-> <<>>, decisionResult |-> None]

\* res.json(...) / res.status(...).json(...)
\* paid is result.paid ("none" when the body has no result), reason tells
\* whether result.reason is set, error whether the body is {success: false,
\* error}; no response of the handler carries a reconciliation flag.
Response(status, paid, reason, txHash) ==
    [status |-> status, paid |-> paid, reason |-> reason, txHash |-> txHash,
     error |-> paid = "none", reconciliation |-> FALSE]

\* catch (error) { res.status(500).json({ success: false, steps, error }) }
AgentError == Response(500, "none", FALSE, 0)

\* updateProviderStats (the in-memory counters)
updateProviderStats(stats, provider, success, latencyMs) ==
    IF provider \in DOMAIN stats
    THEN [stats EXCEPT ![provider] =
            [success |-> IF success THEN @.success + 1 ELSE @.success,
             failure |-> IF success THEN @.failure ELSE @.failure + 1,
             totalLatency |-> @.totalLatency + latencyMs]]
    ELSE stats

\* A provider_stats table, or a loadedStats object, without rows.
EmptyTable == [p \in {} |-> 0]

\* db.persistProviderStats: the row its upsert statement carries
persistProviderStats(provider, isSuccess, latencyMs) ==
    [provider |-> provider,
     success |-> IF isSuccess THEN 1 ELSE 0,
     failure |-> IF isSuccess THEN 0 ELSE 1,
     total_latency_ms |-> latencyMs]

\* INSERT INTO provider_stats ... ON CONFLICT(provider) DO UPDATE SET ...
upsert(provider_stats, row) ==
    IF row.provider \in DOMAIN provider_stats
    THEN [provider_stats EXCEPT ![row.provider] =
            [success |-> @.success + row.success,
             failure |-> @.failure + row.failure,
             total_latency_ms |-> @.total_latency_ms + row.total_latency_ms]]
    ELSE provider_stats @@
            (row.provider :> [success |-> row.success, failure |-> row.failure,
                              total_latency_ms |-> row.total_latency_ms])

\* updateProviderStats as it acts on the gateway: the counters in memory and
\* the upsert it sends without awaiting it.
UpdateProviderStats(provider, success, latencyMs) ==
    /\ providerStats' = updateProviderStats(providerStats, provider, success, latencyMs)
    /\ db' = IF provider \in DOMAIN providerStats
             THEN [db EXCEPT !.inflight =
                      Append(@, persistProviderStats(provider, success, latencyMs))]
             ELSE db

\* One upsert sent by persistProviderStats reaches the database, or fails
\* and is dropped (catch: console.error, return false). db.errors tells
\* whether a database call of this run has failed.
PersistSettles ==
    /\ \E i \in DOMAIN db.inflight, lands \in BOOLEAN :
        db' = [db EXCEPT
                 !.inflight = SubSeq(@, 1, i - 1) \o SubSeq(@, i + 1, Len(@)),
                 !.provider_stats = IF lands THEN upsert(@, db.inflight[i]) ELSE @,
                 !.errors = @ \/ ~lands]
    /\ UNCHANGED <<env, now, agent, reqCount, providerStats, chainTxs, transactions,
                   served, lastReq, usedTxHashes, payments, apis, proxy,
                   authorizationState, fac, startup, lastCall, rateLimit>>

\* A balance in wei (1e-18 USDC): usdc6 micro-USDC less short wei,
\* usdc6 * 10^12 - short, with short below 10^12.
Wei(usdc6, short) == [usdc6 |-> usdc6, short |-> short]

\* The wei by which a balance may fall short of requiredAmount while
\* parseFloat(ethers.formatUnits(balance, 18)) is still a double at least
\* parseFloat(requiredAmount): the IEEE-754 doubles next to 0.015, 0.02 and
\* 1 lie 3.5, 3.5 and 111 wei apart, and the decimal at this distance below
\* the amount rounds to the double of the amount itself.
doubleSlack(requiredAmount) ==
    CASE requiredAmount = 15000 -> 1      \* parseFloat("0.014999999999999999") = 0.015
      [] requiredAmount = 20000 -> 1      \* parseFloat("0.019999999999999999") = 0.02
      [] requiredAmount = 1000000 -> 55   \* parseFloat("0.999999999999999945") = 1
      [] OTHER -> 0                       \* 0.002, 0.005, 0.01

\* balanceUsdc >= required, on the doubles
balanceSufficient(balance, requiredAmount) ==
    \/ balance.usdc6 > requiredAmount
    \/ balance.usdc6 = requiredAmount /\ balance.short <= doubleSlack(requiredAmount)

\* arcExecutor.checkBalance, the statements of its try block; threw = TRUE is
\* provider.getBalance of a null provider, or its rejection.
checkBalanceTry(provider, balance, requiredAmount) ==
    IF ~provider \/ balance = None
    THEN [threw |-> TRUE, sufficient |-> FALSE, error |-> FALSE]
    ELSE [threw |-> FALSE, sufficient |-> balanceSufficient(Get(balance), requiredAmount),
          error |-> FALSE]

\* arcExecutor.checkBalance: catch (error) { return { sufficient: false, error } }
checkBalance(provider, balance, requiredAmount) ==
    LET r == checkBalanceTry(provider, balance, requiredAmount) IN
    IF r.threw THEN [threw |-> FALSE, sufficient |-> FALSE, error |-> TRUE] ELSE r

\* arcExecutor.preFlightCheck: the signature check, then the balance check
preFlightCheck(typedData, signature, signerAddress, provider, balance, requiredAmount) ==
    LET signatureCheck == executorVerifySignature(typedData, signature, signerAddress)
        balanceCheck == checkBalance(provider, balance, requiredAmount)
    IN [passed |-> signatureCheck.valid /\ balanceCheck.sufficient,
        checks |-> [signature |-> signatureCheck, balance |-> balanceCheck]]

\* The pre-flight guard that never voids.
preflightVoidsNever(balanceCheck) ==
    FALSE

\* /agent/x402: if (!balanceCheck.sufficient) return res.status(400)
preflightVoids(balanceCheck) ==
    ~balanceCheck.sufficient

\* The balances provider.getBalance can report for the executor wallet.
ExecutorBalances(requiredAmount) ==
    {Wei(0, 0), Wei(requiredAmount, 1), Wei(5000000, 0)}

\* The request body the routing builds for the task, one task per provider.
requestBody(selectedApi) == [task |-> selectedApi]

\* fetch sending the call that carries X-PAYMENT without the request body.
fetchPaidWithoutBody(url, xPayment, body) ==
    [url |-> url, xPayment |-> xPayment,
     body |-> IF xPayment = None THEN body ELSE None]

\* fetch(apiUrl, {method: 'POST', headers, body: JSON.stringify(body)}): the
\* request sent, xPayment being its X-PAYMENT header.
fetch(url, xPayment, body) ==
    [url |-> url, xPayment |-> xPayment, body |-> body]

AgentFrame == UNCHANGED <<env, now, served, lastReq, usedTxHashes, payments,
                          apis, proxy, authorizationState, fac, startup, lastCall, rateLimit>>

\* The request arrives: routing picks selectedApi, getDemoWallet answers.
AgentRequest ==
    /\ agent.pc \in {"idle", "done"}
    /\ reqCount < MaxRequests
    /\ reqCount' = reqCount + 1
    /\ \E selectedApi \in Providers, budget \in Budgets, balance \in Balances,
          created \in BOOLEAN :
        LET wallet == IF env.DEMO_WALLET_ADDRESS # None
                      THEN Some([address |-> Get(env.DEMO_WALLET_ADDRESS), balance |-> balance])
                      ELSE IF created
                           THEN Some([address |-> OtherAddress, balance |-> 0])
                           ELSE None
            a == [AgentIdle EXCEPT !.selectedApi = selectedApi, !.budget = budget,
                                   !.wallet = wallet,
                                   !.requestBody = Some(requestBody(selectedApi))]
        IN  \* a configured wallet is not created, a created one has balance 0
            /\ (env.DEMO_WALLET_ADDRESS # None => created)
            /\ (env.DEMO_WALLET_ADDRESS = None => balance = 0)
            /\ agent' = IF wallet = None
                        THEN [a EXCEPT !.pc = "done", !.res = Some(Response(400, "none", FALSE, 0))]
                        ELSE [a EXCEPT !.pc = "api_call",
                                       !.fetches = <<fetch(apiUrl(selectedApi), None,
                                                           a.requestBody)>>]
    /\ UNCHANGED <<providerStats, chainTxs, transactions, db>>
    /\ AgentFrame

\* The initial, unpaid fetch(apiUrl) returns.
AgentApiCall ==
    /\ agent.pc = "api_call"
    /\ \E outcome \in {"throws", "429", "route"} :
        agent' =
          IF outcome # "route"
          THEN [agent EXCEPT !.pc = "done", !.res = Some(AgentError)]
          ELSE IF env.DEMO_WALLET_ADDRESS # None
          THEN \* the paywall answers 402 with the PaymentRequirement
               [agent EXCEPT !.pc = "decision_making",
                  !.requirement = Some([maxAmountRequired |-> x402Config(apiUrl(agent.selectedApi)),
                                        payTo |-> Get(env.DEMO_WALLET_ADDRESS)])]
          ELSE \* no paywall is mounted: response.ok
               [agent EXCEPT !.pc = "done", !.res = Some(Response(200, "false", FALSE, 0))]
    /\ UNCHANGED <<reqCount, providerStats, chainTxs, transactions, db>>
    /\ AgentFrame

\* The texts askGemini returns for the decision prompt: the DECISION line's
\* word and the words of the REASON line, which are written in lower case.
DecisionTexts ==
    { [decision |-> "APPROVE", reason |-> <<"cost", "is", "within", "budget">>],
      [decision |-> "REJECT", reason |-> <<"cost", "is", "too", "high">>],
      [decision |-> "REJECT", reason |-> <<"i", "cannot", "approve", "this", "cost">>] }

\* decisionResult.includes('APPROVE') ? 'APPROVE' : 'REJECT'
aiDecision(decisionResult) ==
    IF decisionResult.decision = "APPROVE" THEN "APPROVE" ELSE "REJECT"

\* decisionResult.toLowerCase().includes('approve') && requiredAmount <= budget
\*     && requiredAmount <= parseFloat(wallet.balance)
shouldPay(decisionResult, requiredAmount, budget, balance) ==
    /\ \/ decisionResult.decision = "APPROVE"
       \/ \E i \in DOMAIN decisionResult.reason : decisionResult.reason[i] = "approve"
    /\ requiredAmount <= budget
    /\ requiredAmount <= balance

\* The generateContent call of askGemini(decisionPrompt) is answered: the
\* text is on its way to the handler.
AskGeminiAnswered ==
    /\ agent.pc = "decision_making"
    /\ agent.decisionResult = None
    /\ \E text \in DecisionTexts :
        agent' = [agent EXCEPT !.decisionResult = Some(text)]
    /\ UNCHANGED <<reqCount, providerStats, chainTxs, transactions, db>>
    /\ AgentFrame

\* await askGemini(decisionPrompt) resumes; shouldPay;
\* buildTransferAuthorization. The text is not read after this step.
AgentDecision ==
    /\ agent.pc = "decision_making"
    /\ agent.decisionResult # None
    /\ LET decisionResult == Get(agent.decisionResult)
           requirement == Get(agent.requirement)
           requiredAmount == requirement.maxAmountRequired
           wallet == Get(agent.wallet)
       IN agent' =
             IF ~shouldPay(decisionResult, requiredAmount, agent.budget, wallet.balance)
             THEN [agent EXCEPT !.pc = "done", !.decisionResult = None,
                                !.res = Some(Response(200, "false", TRUE, 0))]
             ELSE [agent EXCEPT !.pc = "signing", !.decisionResult = None,
                     !.typedData = Some(buildTransferAuthorization(
                         wallet.address, requirement.payTo, requiredAmount,
                         ARC_CHAIN_ID, reqCount, now))]
    /\ UNCHANGED <<reqCount, providerStats, chainTxs, transactions, db>>
    /\ AgentFrame

\* x402Client.signPayment returns or throws.
AgentSigned ==
    /\ agent.pc = "signing"
    /\ \E outcome \in {"throws", "signed", "otherWallet", "undefined"} :
        agent' =
          CASE outcome = "throws" ->
                 [agent EXCEPT !.pc = "done", !.res = Some(AgentError)]
            [] outcome = "signed" ->
                 [agent EXCEPT !.pc = "preflight",
                    !.signature = Some(Sign(Get(agent.wallet).address, Get(agent.typedData)))]
            [] outcome = "otherWallet" ->
                 \* DEMO_WALLET_ID names a wallet other than DEMO_WALLET_ADDRESS
                 [agent EXCEPT !.pc = "preflight",
                    !.signature = Some(Sign(OtherAddress, Get(agent.typedData)))]
            [] outcome = "undefined" ->
                 \* response.data?.signature
                 [agent EXCEPT !.pc = "preflight"]
    /\ UNCHANGED <<reqCount, providerStats, chainTxs, transactions, db>>
    /\ AgentFrame

\* getExecutorBalance and checkBalance return; on a sufficient balance the
\* handler sends the paid fetch(apiUrl) with X-PAYMENT.
AgentPreflight ==
    /\ agent.pc = "preflight"
    /\ LET requiredAmount == Get(agent.requirement).maxAmountRequired IN
       \E rpc \in {"throws", "answers"},
          balance \in {None} \cup {Some(b) : b \in ExecutorBalances(requiredAmount)} :
        LET balanceCheck == checkBalance(env.EXECUTOR_PRIVATE_KEY, balance, requiredAmount) IN
        agent' =
          IF ~env.EXECUTOR_PRIVATE_KEY \/ rpc = "throws"
          THEN \* getExecutorBalance: provider is null, or provider.getBalance rejects
               [agent EXCEPT !.pc = "done", !.executorInfo = "threw",
                             !.res = Some(AgentError)]
          ELSE IF preflightVoids(balanceCheck)
          THEN [agent EXCEPT !.pc = "done", !.executorInfo = "ok",
                             !.balanceCheck = Some(balanceCheck),
                             !.res = Some(Response(400, "none", FALSE, 0))]
          ELSE [agent EXCEPT !.pc = "service_executing", !.executorInfo = "ok",
                             !.balanceCheck = Some(balanceCheck),
                             !.paidCalls = @ + 1,
                             !.fetches = Append(@,
                                 fetch(apiUrl(agent.selectedApi),
                                       Some(buildXPaymentHeader(agent.signature,
                                                Get(agent.typedData), "arc-testnet")),
                                       agent.requestBody))]
    /\ UNCHANGED <<reqCount, providerStats, chainTxs, transactions, db>>
    /\ AgentFrame

\* arcExecutor.executeSimpleTransfer: executorWallet.sendTransaction({to, value})
executeSimpleTransfer(to, amount, req) ==
    [fn |-> "sendTransaction", from |-> ExecutorAddress, to |-> to, value |-> amount,
     nonce |-> None, signature |-> None, req |-> req, status |-> "called"]

\* The paid fetch(apiUrl) with X-PAYMENT returns: the paywall and the service
\* handler have run behind it.  On a validated result the handler goes on to
\* call executeSimpleTransfer.
AgentService ==
    /\ agent.pc = "service_executing"
    /\ \E outcome \in {"throws", "429", "route"}, serviceLatency \in Latencies,
          body \in HandlerBodies(apiUrl(agent.selectedApi)) :
        LET requirement == Get(agent.requirement)
            xPaymentHeader == buildXPaymentHeader(agent.signature, Get(agent.typedData), "arc-testnet")
            validation == validateX402Payment(xPaymentHeader, requirement.payTo,
                                              requirement.maxAmountRequired)
            status == IF outcome = "429" THEN 429
                      ELSE IF validation.valid THEN 200 ELSE 402
            passed == outcome = "route" /\ validation.valid
            apiResult == IF passed THEN body ELSE EmptyBody
        IN IF outcome = "throws"
           THEN /\ agent' = [agent EXCEPT !.pc = "done", !.fetchError = TRUE,
                                          !.res = Some(AgentError)]
                /\ UNCHANGED <<providerStats, chainTxs, db>>
           ELSE IF settlementReleased(status, apiResult)
           THEN /\ agent' = [agent EXCEPT !.pc = "settling", !.status = status,
                                          !.paywallPassed = passed,
                                          !.apiResult = Some(apiResult),
                                          !.statsCalls = @ + 1]
                /\ UpdateProviderStats(agent.selectedApi, TRUE, serviceLatency)
                /\ chainTxs' = Append(chainTxs,
                       executeSimpleTransfer(requirement.payTo,
                                             requirement.maxAmountRequired, reqCount))
           ELSE /\ agent' = [agent EXCEPT !.pc = "done", !.status = status,
                                          !.paywallPassed = passed,
                                          !.apiResult = IF ok(status) THEN Some(apiResult) ELSE None,
                                          !.statsCalls = @ + 1,
                                          !.res = Some(Response(200, "false", TRUE, 0))]
                /\ UpdateProviderStats(agent.selectedApi, FALSE, serviceLatency)
                /\ UNCHANGED chainTxs
    /\ UNCHANGED <<reqCount, transactions>>
    /\ AgentFrame

\* A failed submission that is sent once more.
settlementFailedRetried(txs, i, status) ==
    Append([txs EXCEPT ![i].status = status], [txs[i] EXCEPT !.status = "called"])

\* catch (error) { ...; throw error }: the submission that failed is left as
\* it failed and the error goes to the caller; nothing is sent again.
settlementFailed(txs, i, status) ==
    [txs EXCEPT ![i].status = status]

\* executeSimpleTransfer returns or throws; on success saveTransaction runs
\* and the paid outcome is sent.
AgentSettle ==
    /\ agent.pc = "settling"
    /\ \E outcome \in {"sendThrows", "waitThrows", "confirmed"}, saved \in BOOLEAN :
        LET txHash == Len(chainTxs)
            requiredAmount == Get(agent.requirement).maxAmountRequired
        IN IF outcome = "confirmed"
           THEN /\ chainTxs' = [chainTxs EXCEPT ![txHash].status = "confirmed"]
                /\ agent' = [agent EXCEPT !.pc = "done", !.txResult = "success",
                                          !.totalSpent = requiredAmount,
                                          !.res = Some(Response(200, "true", FALSE, txHash))]
                /\ transactions' =
                     IF saved
                     THEN Append(transactions, [txHash |-> txHash,
                                                provider |-> agent.selectedApi,
                                                status |-> "success"])
                     ELSE transactions   \* saveTransaction caught a db error
           ELSE /\ chainTxs' = settlementFailed(chainTxs, txHash,
                                   IF outcome = "sendThrows" THEN "rejected" ELSE "unconfirmed")
                /\ agent' = [agent EXCEPT !.pc = "done", !.txResult = outcome,
                                          !.res = Some(AgentError)]
                /\ saved
                /\ UNCHANGED transactions
    /\ UNCHANGED <<reqCount, providerStats, db>>
    /\ AgentFrame

DefaultStats == [p \in Providers |-> [success |-> 0, failure |-> 0, totalLatency |-> 0]]

\* The clients' addresses (req.ip).
Ips == {"10.0.0.1", "10.0.0.2"}

\* rateLimit = new Map(), and no request seen.
RateLimitEmpty ==
    [map |-> [ip \in Ips |-> None], passed |-> <<>>, requests |-> 0, status |-> 0,
     ip |-> ""]

\* The startup load has completed on an empty provider_stats table, and no
\* check function has been called.
StatsLoaded ==
    /\ db = [provider_stats |-> EmptyTable, inflight |-> <<>>, errors |-> FALSE]
    /\ startup = [pc |-> "done", loadedStats |-> EmptyTable]
    /\ lastCall = None
    /\ rateLimit = RateLimitEmpty

\* No request is being served on the paywall, the proxy or the facilitator.
IdleRest ==
    /\ served = <<>>
    /\ lastReq = None
    /\ usedTxHashes = {}
    /\ payments = <<>>
    /\ apis = [totalCalls |-> 0, totalEarnings |-> 0]
    /\ proxy = <<>>
    /\ authorizationState = {}
    /\ fac = <<>>

InitAgent ==
    /\ env \in [DEMO_WALLET_ADDRESS : {None, Some(DemoWalletAddress)},
                EXECUTOR_PRIVATE_KEY : BOOLEAN]
    /\ now = 1000
    /\ agent = AgentIdle
    /\ reqCount = 0
    /\ providerStats = DefaultStats
    /\ chainTxs = <<>>
    /\ transactions = <<>>
    /\ IdleRest
    /\ StatsLoaded

NextAgent ==
    \/ AgentRequest
    \/ AgentApiCall
    \/ AskGeminiAnswered
    \/ AgentDecision
    \/ AgentSigned
    \/ AgentPreflight
    \/ AgentService
    \/ AgentSettle

\* One /agent/x402 handler at a time.  The upserts updateProviderStats sends
\* stay in db.inflight: the handler never awaits or reads them, and their
\* settling is part of SpecStats.
SpecAgent == InitAgent /\ [][NextAgent]_vars

----------------------------------------------------------------------------
(* Properties of POST /agent/x402 *)

\* The chain submissions made by the request being served.
AgentTxs == { i \in DOMAIN chainTxs : chainTxs[i].req = reqCount }

\* C1: every chain submission of the handler is made by the step that
\* received the paid service call's answer, and that answer is a 2xx response
\* whose body the result validation accepted.
C1_SettleOnlyAfterValidatedService ==
    [][Len(chainTxs') > Len(chainTxs) =>
          /\ agent.pc = "service_executing"
          /\ ~agent'.fetchError
          /\ ok(agent'.status)
          /\ agent'.paywallPassed
          /\ agent'.apiResult # None
          /\ ~isErrorResult(Get(agent'.apiResult))]_vars

\* C1 witness: a settlement transfer is in flight after a validated result.
C1_Witness ==
    /\ agent.pc = "settling"
    /\ AgentTxs # {}
    /\ ok(agent.status)
    /\ ~isErrorResult(Get(agent.apiResult))

\* C2: a request whose paid service call failed at network level (non-2xx
\* status, connection error or timeout) ends with paid=false and a reason,
\* and has made no chain submission.
C2_ServiceFailureIsVoid ==
    (agent.pc = "done" /\ (agent.fetchError \/ (agent.status # 0 /\ ~ok(agent.status))))
        => /\ Get(agent.res).paid = "false"
           /\ Get(agent.res).reason
           /\ AgentTxs = {}

\* C3: a service response without any recognised content field, or whose
\* model is 'fallback', leads to no chain submission and ends with paid=false.
C3_FallbackNeverPaid ==
    (/\ agent.apiResult # None
     /\ (~hasValidContent(Get(agent.apiResult)) \/ Get(agent.apiResult).model = "fallback"))
        => /\ AgentTxs = {}
           /\ (agent.pc = "done" => Get(agent.res).paid = "false")

\* C4: in a settled attempt the transfer on chain is the one the signed
\* authorization of the request authorises: same payer, payee and amount,
\* with the signature presented on chain.
C4_SettlementIsTheAuthorizedTransfer ==
    (agent.pc = "done" /\ Get(agent.res).paid = "true")
        => \A i \in AgentTxs :
              LET authorization == Get(agent.typedData).message IN
              /\ chainTxs[i].from = authorization.from
              /\ chainTxs[i].to = authorization.to
              /\ chainTxs[i].value = authorization.value
              /\ chainTxs[i].signature # None
              /\ chainTxs[i].signature = agent.signature

\* C5: when the settlement fails after a validated result, the caller gets a
\* best-effort paid=true outcome with a reconciliation flag.
C5_SettlementFailureIsReconciliation ==
    (agent.pc = "done" /\ agent.txResult \in {"sendThrows", "waitThrows"})
        => /\ Get(agent.res).paid = "true"
           /\ Get(agent.res).reconciliation

\* C11: a request whose pre-flight reported the executor balance as
\* insufficient, the balance query having failed included, has ended without
\* sending the paid service call and without a chain submission.
C11_PreflightFailureIsVoid ==
    (\/ agent.executorInfo = "threw"
     \/ (agent.balanceCheck # None /\ ~Get(agent.balanceCheck).sufficient))
        => /\ agent.pc = "done"
           /\ agent.paidCalls = 0
           /\ AgentTxs = {}

\* C11 witness: checkBalance's query failed and the request has ended.
C11_Witness ==
    /\ agent.pc = "done"
    /\ agent.balanceCheck # None
    /\ ~Get(agent.balanceCheck).sufficient
    /\ Get(agent.balanceCheck).error
    /\ agent.paidCalls = 0

\* The request has ended after its payment authorization was built and
\* held: it is voided by the pre-flight, voided by the service, or settled.
AttemptEnded == agent.pc = "done" /\ agent.balanceCheck # None

\* C18: a request that ended in a terminal state of the settlement attempt
\* has made exactly one updateProviderStats call.
C18_OneStatsUpdatePerAttempt ==
    AttemptEnded => agent.statsCalls = 1

\* C19: a provider's success counter only grows in a step after which a
\* settlement of the request is confirmed on chain.
C19_SuccessCountedAfterSettlement ==
    [][(\E p \in Providers : providerStats'[p].success > providerStats[p].success)
          => \E i \in DOMAIN chainTxs' :
                chainTxs'[i].req = reqCount' /\ chainTxs'[i].status = "confirmed"]_vars

\* C20: a response with paid=true and a txHash has a row of the
\* transactions table with this txHash and status 'success'.
C20_PaidHasAuditRecord ==
    (agent.pc = "done" /\ Get(agent.res).paid = "true")
        => \E i \in DOMAIN transactions :
              /\ transactions[i].txHash = Get(agent.res).txHash
              /\ transactions[i].status = "success"

\* The fetches of the request that carry an X-PAYMENT header.
PaidFetches == { i \in DOMAIN agent.fetches : agent.fetches[i].xPayment # None }

\* The pre-flight check of the request has passed.
PreflightPassed == agent.balanceCheck # None /\ Get(agent.balanceCheck).sufficient

\* C25: once the pre-flight check has passed, /agent/x402 has made exactly
\* one call to the downstream service that carries the proof of payment,
\* with the request body of the initial unpaid request; before that it has
\* made none, and it never makes a second one.
C25_OnePaidCallSameBody ==
    /\ Cardinality(PaidFetches) = IF PreflightPassed THEN 1 ELSE 0
    /\ \A i \in PaidFetches :
        /\ agent.fetches[1].xPayment = None
        /\ agent.fetches[i].url = agent.fetches[1].url
        /\ agent.fetches[1].body # None
        /\ agent.fetches[i].body = agent.fetches[1].body

\* C25 witness: a request whose pre-flight check passed has ended settled.
C25_Witness ==
    /\ agent.pc = "done"
    /\ PreflightPassed
    /\ PaidFetches # {}
    /\ agent.txResult = "success"

\* C36: /agent/x402 submits a settlement transfer only if the required
\* amount is within the budget and the wallet balance and the decision text
\* approved the payment; the total spent in a request never exceeds its
\* budget; a declined decision leads to no signing, no paid service call and
\* no chain submission.
C36_PayOnlyWhenApprovedWithinBudget ==
    /\ [](/\ AgentTxs # {} =>
              /\ Get(agent.requirement).maxAmountRequired <= agent.budget
              /\ Get(agent.requirement).maxAmountRequired <= Get(agent.wallet).balance
          /\ agent.totalSpent <= agent.budget)
    /\ [][(agent.pc = "decision_making" /\ agent'.pc # "decision_making") =>
            IF aiDecision(Get(agent.decisionResult)) = "APPROVE"
            THEN agent'.pc = "signing" =>
                    /\ Get(agent.requirement).maxAmountRequired <= agent.budget
                    /\ Get(agent.requirement).maxAmountRequired <= Get(agent.wallet).balance
            ELSE /\ agent'.pc = "done"
                 /\ agent'.typedData = None
                 /\ agent'.signature = None
                 /\ agent'.fetches = agent.fetches
                 /\ UNCHANGED chainTxs
       ]_vars

\* C38: a provider's failure counter is incremented only when the provider's
\* service handler was invoked: a paid request that the paywall (or the rate
\* limiter in front of it) turned away does not count as a provider failure.
C38_FailureCountedOnlyWhenServiceRan ==
    [][\A p \in DOMAIN providerStats :
          providerStats'[p].failure > providerStats[p].failure
              => /\ agent'.selectedApi = p
                 /\ agent'.paywallPassed
      ]_vars

----------------------------------------------------------------------------
(* arcX402Middleware: requests to the x402-protected routes *)

MaxTicks == 2           \* seconds that pass in a run
StartTime == 1000       \* the clock when the run starts

\* An authorization the paywall is meant to accept: to the configured
\* recipient, for at least every route price, valid for the whole run.
GoodAuthorization(nonce) ==
    [from |-> OtherAddress, to |-> DemoWalletLower, value |-> 20000,
     validAfter |-> StartTime, validBefore |-> StartTime + VALIDITY_WINDOW,
     nonce |-> nonce]

\* The authorizations a caller presents: a good one, one to another payee,
\* one below every route price, one that expires within the run.
PayerAuthorizations ==
    UNION { { GoodAuthorization(n),
              [GoodAuthorization(n) EXCEPT !.to = ExecutorAddress],
              [GoodAuthorization(n) EXCEPT !.value = 1000],
              [GoodAuthorization(n) EXCEPT !.validBefore = StartTime + 1] } : n \in {1, 2} }

\* The signatures presented with authorization a: by its payer, by another
\* key, or none.
SignaturesFor(a) ==
    LET td == [domain |-> VerifierDomain, message |-> a] IN
    { Some(Sign(a.from, td)), Some(Sign(ExecutorAddress, td)), None }

\* Not base64 of JSON.
MalformedHeader ==
    [wellFormed |-> FALSE, x402Version |-> 0, scheme |-> "", network |-> "",
     payload |-> None]

XPaymentHeaders ==
    UNION { { buildXPaymentHeader(sig, [domain |-> VerifierDomain, message |-> a], "arc-testnet") :
                sig \in SignaturesFor(a) } : a \in PayerAuthorizations }
    \cup { MalformedHeader }

\* The replay key of a header that carries an authorization.
ReplayKey(xPaymentHeader) ==
    LET authorization == Get(decodeXPaymentHeader(xPaymentHeader).authorization)
    IN <<authorization.from, authorization.nonce>>

ReplayKeys == { <<a.from, a.nonce>> : a \in PayerAuthorizations }

PaywallFrame == UNCHANGED <<agent, reqCount, providerStats, chainTxs, transactions,
                            usedTxHashes, payments, apis, proxy, authorizationState, fac,
                            db, startup, lastCall, rateLimit>>

\* How a request spells the path of a route: as x402Config spells it, or
\* with a trailing slash.  x402Router is built with express.Router() and its
\* defaults, so both spellings reach the route's handler.
Spellings == {"exact", "trailing-slash"}

\* routeConfig[routeKey] with routeKey = `${req.method} ${req.path}`: the
\* route's price, or nothing when req.path is not spelled as the key is.
routeConfig(path) ==
    IF path.spelling = "exact" THEN Some(x402Config(path.route)) ELSE None

\* The entry under `accepts' of the 402 body for a request without X-PAYMENT.
paymentRequirement(recipientAddress, route) ==
    [scheme |-> "exact", network |-> "arc-testnet",
     maxAmountRequired |-> x402Config(route), payTo |-> recipientAddress,
     maxTimeoutSeconds |-> VALIDITY_WINDOW, asset |-> USDC_CONTRACT]

\* arcX402Middleware(recipientAddress, routeConfig) on a request to path:
\* the HTTP status it answers, 0 when it calls next().
arcX402Middleware(recipientAddress, path, xPaymentHeader) ==
    IF routeConfig(path) = None THEN 0
    ELSE IF xPaymentHeader = None THEN 402
    ELSE IF ~validateX402Payment(Get(xPaymentHeader), recipientAddress,
                                 Get(routeConfig(path))).valid
    THEN 402
    ELSE 0

\* The requests made: any header on the path as configured, none on the
\* other spelling.
PaywallRequests ==
    { [route |-> route, spelling |-> "exact", xPaymentHeader |-> h] :
        route \in Routes, h \in {None} \cup {Some(x) : x \in XPaymentHeaders} }
    \cup { [route |-> route, spelling |-> sp, xPaymentHeader |-> None] :
             route \in Routes, sp \in Spellings }

\* A POST to /x402/<route>, with or without an X-PAYMENT header.
PaywallRequest ==
    /\ \E req \in PaywallRequests :
        LET route == req.route
            xPaymentHeader == req.xPaymentHeader
            path == [route |-> route, spelling |-> req.spelling]
            mounted == env.DEMO_WALLET_ADDRESS # None
            status == IF mounted
                      THEN arcX402Middleware(Get(env.DEMO_WALLET_ADDRESS), path, xPaymentHeader)
                      ELSE 0
            counted == mounted /\ status = 0 /\ xPaymentHeader # None
        IN /\ counted => served[ReplayKey(Get(xPaymentHeader))] < MaxServed
           /\ lastReq' = Some([route |-> route, spelling |-> req.spelling,
                               xPaymentHeader |-> xPaymentHeader,
                               paywall |-> mounted,
                               status |-> IF status = 0 THEN 200 ELSE status,
                               accepts |-> IF status = 402 /\ xPaymentHeader = None
                                           THEN Some(paymentRequirement(
                                                    Get(env.DEMO_WALLET_ADDRESS), route))
                                           ELSE None,
                               handlerRan |-> status = 0, at |-> now])
           /\ served' = IF counted
                        THEN [served EXCEPT ![ReplayKey(Get(xPaymentHeader))] = @ + 1]
                        ELSE served
    /\ UNCHANGED <<env, now>>
    /\ PaywallFrame

\* A second passes.
Tick ==
    /\ now < StartTime + MaxTicks
    /\ now' = now + 1
    /\ UNCHANGED <<env, served, lastReq>>
    /\ PaywallFrame

InitPaywall ==
    /\ env \in [DEMO_WALLET_ADDRESS : {None, Some(DemoWalletAddress)},
                EXECUTOR_PRIVATE_KEY : {TRUE}]
    /\ now = StartTime
    /\ served = [k \in ReplayKeys |-> 0]
    /\ lastReq = None
    /\ agent = AgentIdle
    /\ reqCount = 0
    /\ providerStats = DefaultStats
    /\ chainTxs = <<>>
    /\ transactions = <<>>
    /\ usedTxHashes = {}
    /\ payments = <<>>
    /\ apis = [totalCalls |-> 0, totalEarnings |-> 0]
    /\ proxy = <<>>
    /\ authorizationState = {}
    /\ fac = <<>>
    /\ StatsLoaded

NextPaywall == PaywallRequest \/ Tick

SpecPaywall == InitPaywall /\ [][NextPaywall]_vars

\* C6: the paywall lets an authorization (payer, nonce) through at most once.
C6_AuthorizationAcceptedOnce ==
    \A k \in DOMAIN served : served[k] <= 1

\* The request the paywall has just let through to its service handler.
PaywallPassed ==
    /\ lastReq # None
    /\ Get(lastReq).paywall
    /\ Get(lastReq).handlerRan
    /\ Get(lastReq).xPaymentHeader # None

\* C9: no service handler runs for an authorization whose validBefore is in
\* the past.
C9_ExpiredAuthorizationRejected ==
    PaywallPassed =>
        Get(lastReq).at <=
            Get(decodeXPaymentHeader(Get(Get(lastReq).xPaymentHeader)).authorization).validBefore

\* C10: the paywall lets a request through only if the authorization's payee
\* is the configured recipient and its value is at least the route price.
C10_PayeeAndAmountChecked ==
    PaywallPassed =>
        LET authorization ==
                Get(decodeXPaymentHeader(Get(Get(lastReq).xPaymentHeader)).authorization) IN
        /\ toLowerCase(authorization.to) = toLowerCase(Get(env.DEMO_WALLET_ADDRESS))
        /\ authorization.value >= x402Config(Get(lastReq).route)

\* C21: a request without an X-PAYMENT header to a route of x402Config is
\* answered 402 with a PaymentRequirement under `accepts', and the route's
\* service handler does not run.
C21_NoHeaderIsChallenged ==
    (lastReq # None /\ Get(lastReq).xPaymentHeader = None) =>
        /\ Get(lastReq).status = 402
        /\ Get(lastReq).accepts # None
        /\ ~Get(lastReq).handlerRan


----------------------------------------------------------------------------
(* app.all('/proxy/:apiId') *)

NumHandlers == 2        \* /proxy requests served concurrently
PricePerCall == 10000   \* api.pricePerCall of the API behind the proxy

Handlers == 1..NumHandlers

\* txHash.startsWith('arc:0x') && txHash.length > 20
RealTxHashes == {"arc:0xaaaaaaaaaaaaaaaaaaaa", "arc:0xbbbbbbbbbbbbbbbbbbbb"}
DemoTxHashes == {"demo-1"}

isRealTxHash(txHash) == txHash \in RealTxHashes

\* arcVerifier.verifyPayment, when the RPC answers: 0xaa.. is a confirmed
\* transfer of the price to the API owner, 0xbb.. is not.
verifyPayment(txHash, rpcAnswers) ==
    IF rpcAnswers /\ txHash = "arc:0xaaaaaaaaaaaaaaaaaaaa"
    THEN [valid |-> TRUE, actualAmount |-> PricePerCall, simulated |-> FALSE]
    ELSE [valid |-> FALSE, actualAmount |-> 0, simulated |-> FALSE]

\* The decoded x-payment headers of /proxy requests: JSON.parse(base64).
ProxyPayments ==
    { [wellFormed |-> FALSE, txHash |-> None, amount |-> None],
      [wellFormed |-> TRUE, txHash |-> None, amount |-> None] }
    \cup [wellFormed : {TRUE}, txHash : {Some(t) : t \in RealTxHashes \cup DemoTxHashes},
          amount : {None, Some(7000)}]

ProxyIdle == [pc |-> "idle", payment |-> None, status |-> 0, accepted |-> FALSE]

ProxyFrame == UNCHANGED <<env, now, agent, reqCount, providerStats, chainTxs,
                          transactions, served, lastReq, authorizationState, fac,
                          db, startup, lastCall, rateLimit>>

\* usedTxHashes.add, payments.push and the API's counters.
ProxyAccept(p, payment, verificationResult) ==
    /\ usedTxHashes' = usedTxHashes \cup {Get(payment.txHash)}
    /\ payments' = Append(payments, [txHash |-> Get(payment.txHash),
                                     amount |-> verificationResult.actualAmount,
                                     verified |-> ~verificationResult.simulated])
    /\ apis' = [totalCalls |-> apis.totalCalls + 1,
                totalEarnings |-> apis.totalEarnings + verificationResult.actualAmount]
    /\ proxy' = [proxy EXCEPT ![p] = [pc |-> "forwarding", payment |-> Some(payment),
                                      status |-> 0, accepted |-> TRUE]]

\* A rejection that marks the txHash of the rejected payment as used.
ProxyRejectMarksUsed(p, paymentHeader, status) ==
    /\ proxy' = [proxy EXCEPT ![p] = [pc |-> "done", payment |-> paymentHeader,
                                      status |-> status, accepted |-> FALSE]]
    /\ usedTxHashes' = usedTxHashes
                          \cup (IF paymentHeader = None THEN {}
                                ELSE Get(paymentHeader).txHash)
    /\ UNCHANGED <<payments, apis>>

\* return res.status(status).json({error}) before anything is recorded.
ProxyReject(p, paymentHeader, status) ==
    /\ proxy' = [proxy EXCEPT ![p] = [pc |-> "done", payment |-> paymentHeader,
                                      status |-> status, accepted |-> FALSE]]
    /\ UNCHANGED <<usedTxHashes, payments, apis>>

\* The replay check finding no txHash used.
hasTxHashNever(used, txHash) == FALSE

\* usedTxHashes.has(txHash)
hasTxHash(used, txHash) == txHash \in used

\* A request arrives and runs up to its first await.
ProxyRequest(p) ==
    /\ proxy[p].pc \in {"idle", "done"}
    /\ Len(payments) + Cardinality({q \in Handlers : proxy[q].pc = "verifying"}) < MaxPayments
    /\ \E paymentHeader \in {None} \cup {Some(h) : h \in ProxyPayments} :
        IF paymentHeader = None THEN ProxyReject(p, paymentHeader, 402)
        ELSE LET payment == Get(paymentHeader) IN
             IF ~payment.wellFormed \/ payment.txHash = None
             THEN ProxyReject(p, paymentHeader, 400)
             ELSE IF hasTxHash(usedTxHashes, Get(payment.txHash))
             THEN ProxyReject(p, paymentHeader, 400)
             ELSE IF isRealTxHash(Get(payment.txHash))
             THEN \* await arcVerifier.verifyPayment(...)
                  /\ proxy' = [proxy EXCEPT ![p] = [pc |-> "verifying", payment |-> paymentHeader,
                                                    status |-> 0, accepted |-> FALSE]]
                  /\ UNCHANGED <<usedTxHashes, payments, apis>>
             ELSE ProxyAccept(p, payment,
                     [valid |-> TRUE,
                      actualAmount |-> IF payment.amount = None THEN PricePerCall
                                       ELSE Get(payment.amount),
                      simulated |-> TRUE])
    /\ ProxyFrame

\* verifyPayment returns.
ProxyVerified(p) ==
    /\ proxy[p].pc = "verifying"
    /\ \E rpcAnswers \in BOOLEAN :
        LET payment == Get(proxy[p].payment)
            verificationResult == verifyPayment(Get(payment.txHash), rpcAnswers)
        IN IF ~verificationResult.valid
           THEN ProxyReject(p, proxy[p].payment, 402)
           ELSE ProxyAccept(p, payment, verificationResult)
    /\ ProxyFrame

\* fetch(api.targetUrl) returns or throws: the paid response is sent.
ProxyForwarded(p) ==
    /\ proxy[p].pc = "forwarding"
    /\ proxy' = [proxy EXCEPT ![p].pc = "done", ![p].status = 200]
    /\ UNCHANGED <<usedTxHashes, payments, apis>>
    /\ ProxyFrame

InitProxy ==
    /\ env = [DEMO_WALLET_ADDRESS |-> Some(DemoWalletAddress), EXECUTOR_PRIVATE_KEY |-> TRUE]
    /\ now = StartTime
    /\ usedTxHashes = {}
    /\ payments = <<>>
    /\ apis \in {[totalCalls |-> 0, totalEarnings |-> 0],
                 [totalCalls |-> 5, totalEarnings |-> 30000]}
    /\ proxy = [p \in Handlers |-> ProxyIdle]
    /\ agent = AgentIdle
    /\ reqCount = 0
    /\ providerStats = DefaultStats
    /\ chainTxs = <<>>
    /\ transactions = <<>>
    /\ served = <<>>
    /\ lastReq = None
    /\ authorizationState = {}
    /\ fac = <<>>
    /\ StatsLoaded

NextProxy ==
    \E p \in Handlers :
        \/ ProxyRequest(p)
        \/ ProxyVerified(p)
        \/ ProxyForwarded(p)

SpecProxy == InitProxy /\ [][NextProxy]_vars

\* C7: of the requests carrying one payment txHash at most one is accepted,
\* also when they are served concurrently.
C7_TxHashAcceptedOnce ==
    \A i, j \in DOMAIN payments :
        payments[i].txHash = payments[j].txHash => i = j

\* A request carrying txHash has been accepted: its payment is recorded.
acceptedTxHash(txHash) == \E i \in DOMAIN payments : payments[i].txHash = txHash

\* C29: a request that arrives with the txHash of an accepted request is
\* answered 400 'Payment already used', and usedTxHashes, payments and the
\* API's totalCalls and totalEarnings stay as they are.
C29_ReplayRejectedWithoutEffect ==
    [][\A p \in Handlers :
        (/\ proxy[p].pc \in {"idle", "done"}
         /\ proxy'[p] # proxy[p]
         /\ proxy'[p].payment # None
         /\ Get(proxy'[p].payment).txHash # None
         /\ acceptedTxHash(Get(Get(proxy'[p].payment).txHash)))
        => /\ proxy'[p].pc = "done"
           /\ proxy'[p].status = 400
           /\ ~proxy'[p].accepted
           /\ UNCHANGED <<usedTxHashes, payments, apis>>
      ]_vars

\* C29 witness: a request was answered 400 for a txHash whose payment is
\* recorded.
C29_Witness ==
    \E p \in DOMAIN proxy :
        /\ proxy[p].pc = "done"
        /\ proxy[p].status = 400
        /\ proxy[p].payment # None
        /\ Get(proxy[p].payment).txHash # None
        /\ acceptedTxHash(Get(Get(proxy[p].payment).txHash))

\* C34: a /proxy request whose payment is rejected (no or malformed header,
\* missing txHash, used txHash, failed on-chain verification) leaves
\* usedTxHashes, payments, totalCalls and totalEarnings as they are, and the
\* target API is not called for it.
C34_RejectedPaymentHasNoEffect ==
    /\ [](\A p \in DOMAIN proxy : proxy[p].pc = "forwarding" => proxy[p].accepted)
    /\ [][\A p \in Handlers :
            (proxy'[p] # proxy[p] /\ proxy'[p].pc = "done" /\ ~proxy'[p].accepted)
            => /\ proxy'[p].status \in {400, 402}
               /\ proxy[p].pc # "forwarding"
               /\ UNCHANGED <<usedTxHashes, payments, apis>>
       ]_vars

\* C34 witness: after a payment was recorded, a request with a real txHash
\* was answered 402 because its on-chain verification failed, and another was
\* answered 400 for its header.
C34_Witness ==
    /\ Len(payments) > 0
    /\ \E p, q \in DOMAIN proxy :
        /\ proxy[p].pc = "done" /\ proxy[p].status = 402 /\ ~proxy[p].accepted
        /\ proxy[p].payment # None
        /\ isRealTxHash(Get(Get(proxy[p].payment).txHash))
        /\ proxy[q].pc = "done" /\ proxy[q].status = 400 /\ ~proxy[q].accepted
        /\ Get(proxy[q].payment).txHash = None

\* C35: payments holds exactly one record for each txHash in usedTxHashes:
\* the two have the same size and no two records carry one txHash, also when
\* requests are served concurrently.
C35_OneRecordPerUsedTxHash ==
    /\ Len(payments) = Cardinality(usedTxHashes)
    /\ \A i, j \in DOMAIN payments :
        i # j => payments[i].txHash # payments[j].txHash

----------------------------------------------------------------------------
(* arcVerifier.processX402Payment *)

NumCalls == 2           \* processX402Payment calls in a run, served concurrently

Calls == 1..NumCalls

\* The X-PAYMENT headers handed to processX402Payment.
FacilitatorHeaders ==
    LET td(a) == [domain |-> VerifierDomain, message |-> a]
        signed(a) == buildXPaymentHeader(Some(Sign(a.from, td(a))), td(a), "arc-testnet")
    IN { signed(GoodAuthorization(1)),
         signed(GoodAuthorization(2)),
         signed([GoodAuthorization(1) EXCEPT !.to = ExecutorAddress]),
         signed([GoodAuthorization(1) EXCEPT !.value = 1000]),
         signed([GoodAuthorization(1) EXCEPT !.validBefore = StartTime + 1]),
         signed([GoodAuthorization(1) EXCEPT !.validBefore = StartTime]),
         signed([GoodAuthorization(2) EXCEPT !.validAfter = StartTime + 1]),
         buildXPaymentHeader(Some(Sign(ExecutorAddress, td(GoodAuthorization(1)))),
                             td(GoodAuthorization(1)), "arc-testnet"),
         MalformedHeader }

FacIdle == [pc |-> "idle", xPaymentHeader |-> None, result |-> "none"]

FacFrame == UNCHANGED <<env, agent, reqCount, providerStats, transactions, served,
                        lastReq, usedTxHashes, payments, apis, proxy, db, startup, lastCall, rateLimit>>

\* facilitatorChecks without step 5, the amount check.
facilitatorChecksNoAmount(xPaymentHeader, expectedRecipient, expectedAmount, t) ==
    LET payment == decodeXPaymentHeader(xPaymentHeader)
        authorization == Get(payment.authorization)
    IN IF ~payment.ok THEN "rejects"
       ELSE IF ~verifySignature(payment.authorization, payment.signature).valid
       THEN "Invalid signature"
       ELSE IF toLowerCase(authorization.to) # toLowerCase(expectedRecipient)
       THEN "Recipient mismatch"
       ELSE IF t < authorization.validAfter THEN "Payment not yet valid"
       ELSE IF t > authorization.validBefore THEN "Payment expired"
       ELSE "ok"

\* processX402Payment, steps 1 to 6: the checks made before the first await.
\* "ok" when they all pass, otherwise the outcome of the call.
facilitatorChecks(xPaymentHeader, expectedRecipient, expectedAmount, t) ==
    LET payment == decodeXPaymentHeader(xPaymentHeader)
        authorization == Get(payment.authorization)
    IN IF ~payment.ok THEN "rejects"     \* decodeXPaymentHeader throws
       ELSE IF ~verifySignature(payment.authorization, payment.signature).valid
       THEN "Invalid signature"
       ELSE IF toLowerCase(authorization.to) # toLowerCase(expectedRecipient)
       THEN "Recipient mismatch"
       ELSE IF authorization.value < expectedAmount THEN "Insufficient amount"
       ELSE IF t < authorization.validAfter THEN "Payment not yet valid"
       ELSE IF t > authorization.validBefore THEN "Payment expired"
       ELSE "ok"

\* usdcWithSigner.transferWithAuthorization(from, to, value, ..., v, r, s)
transferWithAuthorization(authorization, signature, call) ==
    [fn |-> "transferWithAuthorization", from |-> authorization.from,
     to |-> authorization.to, value |-> authorization.value,
     nonce |-> Some(authorization.nonce), signature |-> signature,
     req |-> call, status |-> "called"]

\* The USDC contract executing transferWithAuthorization at time t.
contractAccepts(tx, used, t, authorization) ==
    /\ <<tx.from, Get(tx.nonce)>> \notin used
    /\ t > authorization.validAfter
    /\ t < authorization.validBefore
    /\ verifySignature(Some(authorization), tx.signature).valid

\* processX402Payment is called: steps 1 to 6, then await isNonceUsed.
FacCall(c) ==
    /\ fac[c].pc = "idle"
    /\ \E h \in FacilitatorHeaders :
        LET checks == facilitatorChecks(h, DemoWalletAddress, PricePerCall, now) IN
        fac' = [fac EXCEPT ![c] =
                  IF checks = "ok"
                  THEN [pc |-> "isNonceUsed", xPaymentHeader |-> Some(h), result |-> "none",
                        nonceQuery |-> "none"]
                  ELSE [pc |-> "done", xPaymentHeader |-> Some(h), result |-> checks,
                        nonceQuery |-> "none"]]
    /\ UNCHANGED <<now, chainTxs, authorizationState>>
    /\ FacFrame

\* usdcContract.authorizationState(authorizer, nonce) resolves with the
\* chain's answer, or rejects: nonceQuery is how the query ended.
FacNonceQueried(c) ==
    /\ fac[c].pc = "isNonceUsed"
    /\ fac[c].nonceQuery = "none"
    /\ \E rpcAnswers \in BOOLEAN :
        LET h == decodeXPaymentHeader(Get(fac[c].xPaymentHeader))
            authorization == Get(h.authorization)
        IN fac' = [fac EXCEPT ![c].nonceQuery =
                      IF ~rpcAnswers THEN "failed"
                      ELSE IF <<authorization.from, authorization.nonce>> \in authorizationState
                      THEN "used" ELSE "unused"]
    /\ UNCHANGED <<now, chainTxs, authorizationState>>
    /\ FacFrame

\* isNonceUsed returns (false when the query failed); step 8 calls
\* transferWithAuthorization.
FacNonceChecked(c) ==
    /\ fac[c].pc = "isNonceUsed"
    /\ fac[c].nonceQuery # "none"
    /\ LET h == decodeXPaymentHeader(Get(fac[c].xPaymentHeader))
           authorization == Get(h.authorization)
           nonceUsed == fac[c].nonceQuery = "used"
       IN IF nonceUsed
          THEN /\ fac' = [fac EXCEPT ![c].pc = "done", ![c].result = "Nonce already used",
                                     ![c].nonceQuery = "none"]
               /\ UNCHANGED chainTxs
          ELSE /\ fac' = [fac EXCEPT ![c].pc = "submitting", ![c].nonceQuery = "none"]
               /\ chainTxs' = Append(chainTxs, transferWithAuthorization(authorization, h.signature, c))
    /\ UNCHANGED <<now, authorizationState>>
    /\ FacFrame

\* The chain submissions of call c (at most one).
FacTx(c) == CHOOSE i \in DOMAIN chainTxs : chainTxs[i].req = c

\* transferWithAuthorization resolves with the sent transaction, or rejects
\* (gas estimation finds the call reverting, or the RPC fails).
FacSubmitted(c) ==
    /\ fac[c].pc = "submitting"
    /\ \E rpcAnswers \in BOOLEAN :
        LET i == FacTx(c)
            authorization == Get(decodeXPaymentHeader(Get(fac[c].xPaymentHeader)).authorization)
        IN IF rpcAnswers /\ contractAccepts(chainTxs[i], authorizationState, now, authorization)
           THEN /\ fac' = [fac EXCEPT ![c].pc = "waiting"]
                /\ chainTxs' = [chainTxs EXCEPT ![i].status = "sent"]
           ELSE /\ fac' = [fac EXCEPT ![c].pc = "done", ![c].result = "Execution failed"]
                /\ chainTxs' = [chainTxs EXCEPT ![i].status = "rejected"]
    /\ UNCHANGED <<now, authorizationState>>
    /\ FacFrame

\* tx.wait() resolves with the receipt of the mined transaction, or rejects.
FacMined(c) ==
    /\ fac[c].pc = "waiting"
    /\ LET i == FacTx(c)
           authorization == Get(decodeXPaymentHeader(Get(fac[c].xPaymentHeader)).authorization)
       IN IF contractAccepts(chainTxs[i], authorizationState, now, authorization)
          THEN /\ fac' = [fac EXCEPT ![c].pc = "done", ![c].result = "success"]
               /\ chainTxs' = [chainTxs EXCEPT ![i].status = "confirmed"]
               /\ authorizationState' = authorizationState
                                          \cup {<<authorization.from, authorization.nonce>>}
          ELSE /\ fac' = [fac EXCEPT ![c].pc = "done", ![c].result = "Execution failed"]
               /\ chainTxs' = [chainTxs EXCEPT ![i].status = "reverted"]
               /\ UNCHANGED authorizationState
    /\ UNCHANGED now
    /\ FacFrame

\* A second passes while calls are in flight.
FacTick ==
    /\ now < StartTime + MaxTicks
    /\ now' = now + 1
    /\ UNCHANGED <<fac, chainTxs, authorizationState>>
    /\ FacFrame

InitFacilitator ==
    /\ env = [DEMO_WALLET_ADDRESS |-> Some(DemoWalletAddress), EXECUTOR_PRIVATE_KEY |-> TRUE]
    /\ now = StartTime
    /\ fac = [c \in Calls |-> FacIdle]
    /\ chainTxs = <<>>
    /\ authorizationState = {}
    /\ agent = AgentIdle
    /\ reqCount = 0
    /\ providerStats = DefaultStats
    /\ transactions = <<>>
    /\ served = <<>>
    /\ lastReq = None
    /\ usedTxHashes = {}
    /\ payments = <<>>
    /\ apis = [totalCalls |-> 0, totalEarnings |-> 0]
    /\ proxy = <<>>
    /\ StatsLoaded

NextFacilitator ==
    \/ \E c \in Calls :
        \/ FacCall(c)
        \/ FacNonceQueried(c)
        \/ FacNonceChecked(c)
        \/ FacSubmitted(c)
        \/ FacMined(c)
    \/ FacTick

SpecFacilitator == InitFacilitator /\ [][NextFacilitator]_vars

\* C8: of the calls given one signed authorization (payer, nonce), only one
\* reaches the transferWithAuthorization submission.
C8_OneSubmissionPerAuthorization ==
    \A i, j \in DOMAIN chainTxs :
        (chainTxs[i].from = chainTxs[j].from /\ chainTxs[i].nonce = chainTxs[j].nonce)
            => i = j

\* C24: every authorization buildTransferAuthorization produces, and every
\* authorization processX402Payment hands to transferWithAuthorization, has
\* validAfter < validBefore.
C24_ValidityWindowNotEmpty ==
    /\ \A c \in lastCall :
        c.fn = "payAndRequest" =>
            Get(c.typedData).message.validAfter < Get(c.typedData).message.validBefore
    /\ \A c \in DOMAIN fac :
        (\E i \in DOMAIN chainTxs : chainTxs[i].req = c) =>
            LET authorization ==
                    Get(decodeXPaymentHeader(Get(fac[c].xPaymentHeader)).authorization)
            IN authorization.validAfter < authorization.validBefore

\* C32: a processX402Payment call reaches the transferWithAuthorization
\* submission only when the chain reported (payer, nonce) unused; when the
\* authorizationState query fails, no submission is made.
C32_SubmitOnlyWhenNonceReportedUnused ==
    [][\A c \in DOMAIN fac :
          (fac[c].pc = "isNonceUsed" /\ fac'[c].pc = "submitting")
              => fac[c].nonceQuery = "unused"
      ]_vars

\* C33: processX402Payment reports every failure as a returned
\* {success: false, error}: no call ends with its promise rejected.
C33_NeverRejects ==
    \A c \in DOMAIN fac :
        fac[c].xPaymentHeader # None => fac[c].result # "rejects"

----------------------------------------------------------------------------
(* The three places that submit a settlement: /agent/x402,
   processX402Payment and arcExecutor.executeTransferWithAuthorization *)

\* A string that is not a signature.
MalformedSignature ==
    [wellFormed |-> FALSE, signer |-> UnknownSigner,
     digest |-> Digest(VerifierDomain, GoodAuthorization(1))]

\* The (authorization, signature) pairs handed to
\* executeTransferWithAuthorization: signed by the payer, by another key,
\* with a string that is not a signature, or with none.
ExecArguments ==
    LET td(a) == [domain |-> VerifierDomain, message |-> a]
    IN { [authorization |-> a, signature |-> sig] :
           a \in {GoodAuthorization(1), GoodAuthorization(2)},
           sig \in {Some(Sign(OtherAddress, td(GoodAuthorization(1)))),
                    Some(Sign(ExecutorAddress, td(GoodAuthorization(1)))),
                    Some(MalformedSignature), None} }

\* executeTransferWithAuthorization(authorization, signature) is called: it
\* throws without an executor wallet or when ethers.Signature.from throws,
\* and otherwise calls usdcContract.transferWithAuthorization.
ExecCall(c) ==
    /\ fac[c].pc = "idle"
    /\ reqCount = 0
    /\ \E args \in ExecArguments :
        LET call == [pc |-> "exec_submitting", xPaymentHeader |-> None,
                     result |-> "none", authorization |-> args.authorization]
        IN IF ~env.EXECUTOR_PRIVATE_KEY
           THEN /\ fac' = [fac EXCEPT ![c] = [call EXCEPT !.pc = "done",
                                                !.result = "Executor wallet not configured"]]
                /\ UNCHANGED chainTxs
           ELSE IF args.signature = None \/ ~Get(args.signature).wellFormed
           THEN /\ fac' = [fac EXCEPT ![c] = [call EXCEPT !.pc = "done",
                                                          !.result = "throws"]]
                /\ UNCHANGED chainTxs
           ELSE /\ fac' = [fac EXCEPT ![c] = call]
                /\ chainTxs' = Append(chainTxs,
                       transferWithAuthorization(args.authorization, args.signature, c))
    /\ UNCHANGED <<now, authorizationState>>
    /\ FacFrame

\* usdcContract.transferWithAuthorization resolves with the sent
\* transaction, or rejects and the catch block rethrows.
ExecSubmitted(c) ==
    /\ fac[c].pc = "exec_submitting"
    /\ \E rpcAnswers \in BOOLEAN :
        LET i == FacTx(c) IN
        IF rpcAnswers /\ contractAccepts(chainTxs[i], authorizationState, now,
                                         fac[c].authorization)
        THEN /\ fac' = [fac EXCEPT ![c].pc = "exec_waiting"]
             /\ chainTxs' = [chainTxs EXCEPT ![i].status = "sent"]
        ELSE /\ fac' = [fac EXCEPT ![c].pc = "done", ![c].result = "throws"]
             /\ chainTxs' = settlementFailed(chainTxs, i, "rejected")
    /\ UNCHANGED <<now, authorizationState>>
    /\ FacFrame

\* tx.wait() resolves with the receipt, or rejects; a receipt whose status
\* is not 1 is thrown as 'Transaction reverted on-chain'.
ExecMined(c) ==
    /\ fac[c].pc = "exec_waiting"
    /\ LET i == FacTx(c)
           authorization == fac[c].authorization
       IN IF contractAccepts(chainTxs[i], authorizationState, now, authorization)
          THEN /\ fac' = [fac EXCEPT ![c].pc = "done", ![c].result = "success"]
               /\ chainTxs' = [chainTxs EXCEPT ![i].status = "confirmed"]
               /\ authorizationState' = authorizationState
                                          \cup {<<authorization.from, authorization.nonce>>}
          ELSE /\ fac' = [fac EXCEPT ![c].pc = "done", ![c].result = "throws"]
               /\ chainTxs' = settlementFailed(chainTxs, i, "reverted")
               /\ UNCHANGED authorizationState
    /\ UNCHANGED now
    /\ FacFrame

InitSettlement ==
    /\ env \in [DEMO_WALLET_ADDRESS : {Some(DemoWalletAddress)},
                EXECUTOR_PRIVATE_KEY : BOOLEAN]
    /\ now = StartTime
    /\ fac = [c \in Calls |-> FacIdle]
    /\ chainTxs = <<>>
    /\ authorizationState = {}
    /\ agent = AgentIdle
    /\ reqCount = 0
    /\ providerStats = DefaultStats
    /\ transactions = <<>>
    /\ served = <<>>
    /\ lastReq = None
    /\ usedTxHashes = {}
    /\ payments = <<>>
    /\ apis = [totalCalls |-> 0, totalEarnings |-> 0]
    /\ proxy = <<>>
    /\ StatsLoaded

\* No processX402Payment or executeTransferWithAuthorization call was made.
NoCallMade == now = StartTime /\ \A c \in Calls : fac[c].pc = "idle"

\* A run serves /agent/x402 requests, or it makes processX402Payment and
\* executeTransferWithAuthorization calls: the gateway never calls the two
\* functions, and neither shares state with the handler.
NextSettlement ==
    \/ NoCallMade /\ AgentRequest
    \/ AgentApiCall
    \/ AskGeminiAnswered
    \/ AgentDecision
    \/ AgentSigned
    \/ AgentPreflight
    \/ AgentService
    \/ AgentSettle
    \/ \E c \in Calls :
        \/ reqCount = 0 /\ env.EXECUTOR_PRIVATE_KEY /\ FacCall(c)
        \/ FacNonceQueried(c)
        \/ FacNonceChecked(c)
        \/ FacSubmitted(c)
        \/ FacMined(c)
        \/ ExecCall(c)
        \/ ExecSubmitted(c)
        \/ ExecMined(c)
    \/ reqCount = 0 /\ FacTick

SpecSettlement == InitSettlement /\ [][NextSettlement]_vars

\* The on-chain submissions made for request or call r.
SubmissionsOf(r) == { i \in DOMAIN chainTxs : chainTxs[i].req = r }

\* C26: a settlement is never retried: each /agent/x402 request, each
\* processX402Payment call and each executeTransferWithAuthorization call
\* makes at most one on-chain submission, also when the submission or its
\* confirmation has failed.
C26_SettlementNeverRetried ==
    \A r \in 1..(MaxRequests + NumCalls) : Cardinality(SubmissionsOf(r)) <= 1

\* C26 witness: a request or call has ended after its one submission failed.
C26_Witness ==
    \/ /\ agent.pc = "done"
       /\ agent.txResult \in {"sendThrows", "waitThrows"}
       /\ Cardinality(SubmissionsOf(reqCount)) = 1
    \/ \E c \in DOMAIN fac :
        /\ fac[c].pc = "done"
        /\ fac[c].result \in {"throws", "Execution failed"}
        /\ Cardinality(SubmissionsOf(c)) = 1
        /\ chainTxs[FacTx(c)].status \in {"rejected", "reverted"}

----------------------------------------------------------------------------
(* The pre-flight check functions, each run being one call of one of them *)

MaxNonce == 2           \* authorization nonces 1..MaxNonce

\* The authorizations a caller can present: every field takes two values,
\* the payer is spelled checksummed or in lower case, or is not an address.
CheckAuthorizations ==
    { buildTransferAuthorization(from, to, value, ARC_CHAIN_ID, nonce, t).message :
        from \in {DemoWalletAddress, DemoWalletLower, OtherAddress, NotAnAddress},
        to \in {ExecutorAddress, OtherAddress},
        value \in {5000, 10000},
        nonce \in 1..MaxNonce,
        t \in {StartTime, StartTime + 1} }

\* The typed data that can be signed: the addresses of its message encode.
SignableTypedData ==
    { [domain |-> [VerifierDomain EXCEPT !.chainId = chainId], message |-> m] :
        chainId \in {ARC_CHAIN_ID, BASE_SEPOLIA_CHAIN_ID},
        m \in { a \in CheckAuthorizations : isAddress(a.from) } }

\* The typed data of the authorizations, signable or not.
CheckTypedData ==
    { [domain |-> [VerifierDomain EXCEPT !.chainId = chainId], message |-> m] :
        chainId \in {ARC_CHAIN_ID, BASE_SEPOLIA_CHAIN_ID}, m \in CheckAuthorizations }

\* The signatures a caller can present: none, a malformed one, or one made by
\* the demo wallet or another wallet over some typed data; ethers recovers
\* the signer's address in its checksummed spelling.
CheckSignatures ==
    {None, Some(MalformedSignature)}
        \cup { Some(Sign(signer, td)) :
                  signer \in {DemoWalletAddress, OtherAddress}, td \in SignableTypedData }

RequiredAmounts == { x402Config(r) : r \in Routes } \cup {1000000}

\* The balances the RPC can report: nothing, or up to two wei below an amount.
CheckBalances ==
    {Wei(0, 0)} \cup { Wei(a, short) : a \in RequiredAmounts, short \in 0..2 }

ChecksFrame == UNCHANGED <<env, now, agent, reqCount, providerStats, chainTxs,
                           transactions, served, lastReq, usedTxHashes, payments,
                           apis, proxy, authorizationState, fac, db, startup,
                           rateLimit>>

\* arcVerifier.verifySignature(authorization, signature) is called.
CallVerifySignature ==
    /\ lastCall = None
    /\ \E authorization \in {None} \cup {Some(a) : a \in CheckAuthorizations},
          signature \in CheckSignatures :
        lastCall' = Some([fn |-> "arcVerifier.verifySignature",
                          authorization |-> authorization, signature |-> signature,
                          result |-> verifySignature(authorization, signature)])
    /\ ChecksFrame

\* arcExecutor.verifySignature(typedData, signature, expectedSigner) is called.
CallExecutorVerifySignature ==
    /\ lastCall = None
    /\ \E typedData \in {None} \cup {Some(td) : td \in CheckTypedData},
          signature \in CheckSignatures,
          expectedSigner \in {None, Some(DemoWalletAddress), Some(DemoWalletLower),
                              Some(OtherAddress)} :
        lastCall' = Some([fn |-> "arcExecutor.verifySignature",
                          typedData |-> typedData, signature |-> signature,
                          expectedSigner |-> expectedSigner,
                          result |-> executorVerifySignature(typedData, signature,
                                                             expectedSigner)])
    /\ ChecksFrame

\* arcExecutor.checkBalance(address, requiredAmount) is called; provider is
\* whether initializeExecutor has set the provider, balance what
\* provider.getBalance resolves to (None when it rejects).
CallCheckBalance ==
    /\ lastCall = None
    /\ \E provider \in BOOLEAN, balance \in {None} \cup {Some(b) : b \in CheckBalances},
          requiredAmount \in RequiredAmounts :
        lastCall' = Some([fn |-> "checkBalance", provider |-> provider,
                          balance |-> balance, requiredAmount |-> requiredAmount,
                          result |-> checkBalance(provider, balance, requiredAmount)])
    /\ ChecksFrame

\* arcExecutor.preFlightCheck(typedData, signature, signerAddress, requiredAmount)
\* is called for the payment of the /translate route.
CallPreFlightCheck ==
    /\ lastCall = None
    /\ \E signature \in CheckSignatures, provider \in BOOLEAN,
          balance \in {None, Some(Wei(0, 0)), Some(Wei(5000000, 0))} :
        LET typedData == Some([domain |-> VerifierDomain, message |-> GoodAuthorization(1)])
            requiredAmount == x402Config("/translate")
        IN lastCall' = Some([fn |-> "preFlightCheck", typedData |-> typedData,
                             signature |-> signature, provider |-> provider,
                             balance |-> balance, requiredAmount |-> requiredAmount,
                             result |-> preFlightCheck(typedData, signature,
                                                       Some(GoodAuthorization(1).from),
                                                       provider, balance, requiredAmount)])
    /\ ChecksFrame

\* The networks a PaymentRequirement names.
Networks == {"arc-testnet", "base-sepolia", "other-net"}

\* buildXPaymentHeader(signature, typedData, network) is called and the
\* header it returns is handed to decodeXPaymentHeader.
CallBuildXPaymentHeader ==
    /\ lastCall = None
    /\ \E signature \in CheckSignatures, typedData \in CheckTypedData,
          network \in Networks \ {"other-net"} :
        LET header == buildXPaymentHeader(signature, typedData, network) IN
        lastCall' = Some([fn |-> "buildXPaymentHeader", signature |-> signature,
                          typedData |-> Some(typedData), network |-> network,
                          header |-> header,
                          result |-> decodeXPaymentHeader(header)])
    /\ ChecksFrame

\* The headers handed to decodeXPaymentHeader: one a client built, the same
\* with another version tag, without `payload', without signature, without
\* authorization, with an authorization that lacks its nonce, and text that
\* is not base64 of JSON.
DecodeHeaders ==
    LET td == [domain |-> VerifierDomain, message |-> GoodAuthorization(1)]
        signature == Some(Sign(OtherAddress, td))
        built == buildXPaymentHeader(signature, td, "arc-testnet")
        a == GoodAuthorization(1)
    IN { built,
         [built EXCEPT !.x402Version = 2],
         [built EXCEPT !.payload = None],
         [built EXCEPT !.payload = Some([signature |-> None,
                                         authorization |-> Some(a)])],
         [built EXCEPT !.payload = Some([signature |-> signature,
                                         authorization |-> None])],
         [built EXCEPT !.payload =
             Some([signature |-> signature,
                   authorization |-> Some([from |-> a.from, to |-> a.to,
                                           value |-> a.value,
                                           validAfter |-> a.validAfter,
                                           validBefore |-> a.validBefore])])],
         MalformedHeader }

\* decodeXPaymentHeader(xPaymentHeader) is called.
CallDecodeXPaymentHeader ==
    /\ lastCall = None
    /\ \E header \in DecodeHeaders :
        lastCall' = Some([fn |-> "decodeXPaymentHeader", header |-> header,
                          result |-> decodeXPaymentHeader(header)])
    /\ ChecksFrame

\* payAndRequest, step 4: the chain the client signs for.
chainIdOf(network) ==
    IF network = "arc-testnet" THEN ARC_CHAIN_ID
    ELSE IF network = "base-sepolia" THEN BASE_SEPOLIA_CHAIN_ID
    ELSE ARC_CHAIN_ID

\* payAndRequest, steps 4 and 5, for a PaymentRequirement naming network:
\* the wallet signs what buildTransferAuthorization built, and the server
\* verifies the header with verifySignature.
CallPayAndRequest ==
    /\ lastCall = None
    /\ \E network \in Networks, walletAddress \in {DemoWalletAddress, OtherAddress},
          payTo \in {ExecutorAddress, DemoWalletLower},
          amount \in RequiredAmounts, nonce \in 1..MaxNonce :
        LET typedData == buildTransferAuthorization(walletAddress, payTo, amount,
                                                    chainIdOf(network), nonce, now)
            signature == Some(Sign(walletAddress, typedData))
            payment == decodeXPaymentHeader(
                           buildXPaymentHeader(signature, typedData, network))
        IN lastCall' = Some([fn |-> "payAndRequest", network |-> network,
                             typedData |-> Some(typedData), signature |-> signature,
                             result |-> verifySignature(payment.authorization,
                                                        payment.signature)])
    /\ ChecksFrame

InitChecks ==
    /\ env = [DEMO_WALLET_ADDRESS |-> Some(DemoWalletAddress), EXECUTOR_PRIVATE_KEY |-> TRUE]
    /\ now = StartTime
    /\ agent = AgentIdle
    /\ reqCount = 0
    /\ providerStats = DefaultStats
    /\ chainTxs = <<>>
    /\ transactions = <<>>
    /\ IdleRest
    /\ StatsLoaded

NextChecks ==
    \/ CallVerifySignature
    \/ CallExecutorVerifySignature
    \/ CallCheckBalance
    \/ CallPreFlightCheck
    \/ CallBuildXPaymentHeader
    \/ CallDecodeXPaymentHeader
    \/ CallPayAndRequest

SpecChecks == InitChecks /\ [][NextChecks]_vars

\* The signature is one by signer over the typed data (domain, message).
SignedBy(signer, domain, message, signature) ==
    /\ signature.wellFormed
    /\ signature.digest = Digest(domain, message)
    /\ toLowerCase(signature.signer) = toLowerCase(signer)

MalformedCall(c) ==
    \/ c.signature = None
    \/ ~Get(c.signature).wellFormed
    \/ (c.fn = "arcVerifier.verifySignature" /\ c.authorization = None)
    \/ (c.fn = "arcExecutor.verifySignature" /\ c.typedData = None)

\* C13: no call of verifySignature throws, and a call given a malformed or
\* missing signature or no authorization returns valid=false with an error.
C13_VerifySignatureNeverThrows ==
    \A c \in lastCall :
        c.fn \in {"arcVerifier.verifySignature", "arcExecutor.verifySignature"} =>
            /\ ~c.result.threw
            /\ MalformedCall(c) => (~c.result.valid /\ c.result.error)

\* C13 witness: verifySignature was called without an authorization and
\* returned valid=false with an error.
C13_Witness ==
    \E c \in lastCall :
        /\ c.fn = "arcVerifier.verifySignature"
        /\ c.authorization = None
        /\ c.signature # None /\ Get(c.signature).wellFormed
        /\ ~c.result.threw /\ ~c.result.valid /\ c.result.error

\* The balance is at least requiredAmount, to the wei.
atLeast(balance, requiredAmount) ==
    \/ balance.usdc6 > requiredAmount
    \/ balance.usdc6 = requiredAmount /\ balance.short = 0

\* C14: checkBalance never throws; when the balance query fails it returns
\* sufficient=false with an error; and it returns sufficient=true only when
\* a balance of at least the required amount was read.
C14_CheckBalanceFailsClosed ==
    \A c \in lastCall :
        c.fn = "checkBalance" =>
            /\ ~c.result.threw
            /\ (~c.provider \/ c.balance = None)
                  => (~c.result.sufficient /\ c.result.error)
            /\ c.result.sufficient
                  => /\ c.provider /\ c.balance # None
                     /\ atLeast(Get(c.balance), c.requiredAmount)

\* C22: decoding a header that buildXPaymentHeader built gives back the
\* signature and the network it was built from, the scheme "exact", version
\* 1, and the six authorization fields of the typed message.
C22_HeaderRoundTrip ==
    \A c \in lastCall :
        c.fn = "buildXPaymentHeader" =>
            LET message == Get(c.typedData).message IN
            /\ c.result.ok
            /\ c.result.version = 1
            /\ c.result.scheme = "exact"
            /\ c.result.network = c.network
            /\ c.result.signature = c.signature
            /\ c.result.authorization # None
            /\ LET authorization == Get(c.result.authorization) IN
               /\ DOMAIN authorization =
                      {"from", "to", "value", "validAfter", "validBefore", "nonce"}
               /\ authorization.from = message.from
               /\ authorization.to = message.to
               /\ authorization.value = message.value
               /\ authorization.validAfter = message.validAfter
               /\ authorization.validBefore = message.validBefore
               /\ authorization.nonce = message.nonce

\* C22 witness: a header built for arc-testnet from an authorization and the
\* payer's signature over it has been decoded.
C22_Witness ==
    \E c \in lastCall :
        /\ c.fn = "buildXPaymentHeader"
        /\ c.network = "arc-testnet"
        /\ c.signature # None
        /\ Get(c.signature).wellFormed
        /\ Get(c.signature).signer = DemoWalletAddress
        /\ Get(c.typedData).message.from = DemoWalletLower
        /\ c.result.ok

\* The header carries the supported version tag and every required field.
supportedAndComplete(header) ==
    /\ header.wellFormed
    /\ header.x402Version = 1
    /\ header.payload # None
    /\ Get(header.payload).signature # None
    /\ Get(header.payload).authorization # None
    /\ DOMAIN Get(Get(header.payload).authorization) =
           {"from", "to", "value", "validAfter", "validBefore", "nonce"}

\* C23: decodeXPaymentHeader yields a result exactly for the headers with
\* the supported version tag and every required field; for any other header
\* it fails with a decode error.
C23_DecodeRejectsIncomplete ==
    \A c \in lastCall :
        c.fn = "decodeXPaymentHeader" =>
            (c.result.ok <=> supportedAndComplete(c.header))

\* C27: for every network the client signs for, the domain it signs under
\* is the domain verifySignature checks against, and the authorization the
\* wallet signed is accepted.
C27_ClientAndServerDomainsAgree ==
    \A c \in lastCall :
        c.fn = "payAndRequest" =>
            /\ Get(c.typedData).domain = VerifierDomain
            /\ c.result.valid

\* The checks processX402Payment is to make on a header at time t: signed
\* by the payer, payee the expected recipient in any letter case, value at
\* least the expected amount, t within the validity window.
paymentChecksHold(xPaymentHeader, t) ==
    LET payment == decodeXPaymentHeader(xPaymentHeader) IN
    /\ payment.ok
    /\ payment.authorization # None
    /\ payment.signature # None
    /\ LET authorization == Get(payment.authorization) IN
       /\ SignedBy(authorization.from, VerifierDomain, authorization,
                   Get(payment.signature))
       /\ toLowerCase(authorization.to) = toLowerCase(DemoWalletAddress)
       /\ authorization.value >= PricePerCall
       /\ authorization.validAfter <= t
       /\ t <= authorization.validBefore

----------------------------------------------------------------------------
(* Provider scoring: providerStats, its startup load and getProviderScore *)

MaxUpdates == 2         \* requests that reach updateProviderStats in a run

\* Rationals n/d in lowest terms; 0/0 is NaN.
RECURSIVE Gcd(_, _)
Gcd(a, b) == IF b = 0 THEN a ELSE Gcd(b, a % b)

Abs(x) == IF x < 0 THEN -x ELSE x

Rat(n, d) ==
    IF d = 0 THEN [n |-> 0, d |-> 0]
    ELSE LET g == Gcd(Abs(n), Abs(d)) IN
         IF d < 0 THEN [n |-> (-n) \div g, d |-> (-d) \div g]
         ELSE [n |-> n \div g, d |-> d \div g]

NaN == Rat(0, 0)
RatAdd(a, b) == Rat(a.n * b.d + b.n * a.d, a.d * b.d)
RatSub(a, b) == Rat(a.n * b.d - b.n * a.d, a.d * b.d)
RatMul(a, b) == Rat(a.n * b.n, a.d * b.d)
RatMax0(a) == IF a.d = 0 THEN a ELSE IF a.n < 0 THEN Rat(0, 1) ELSE a

\* getProviderScore without the return for zero observations: 0 / 0.
getProviderScoreUnguarded(stats, provider) ==
    IF provider \notin DOMAIN stats THEN Rat(1, 1)
    ELSE LET total == stats[provider].success + stats[provider].failure
             successRate == Rat(stats[provider].success, total)
             avgLatency == Rat(stats[provider].totalLatency, total)
             latencyScore == RatMax0(RatSub(Rat(1, 1), RatMul(avgLatency, Rat(1, 5000))))
         IN RatAdd(RatMul(successRate, Rat(7, 10)), RatMul(latencyScore, Rat(3, 10)))

\* getProviderScore without Math.max(0, ...).
getProviderScoreUnclamped(stats, provider) ==
    IF provider \notin DOMAIN stats THEN Rat(1, 1)
    ELSE LET total == stats[provider].success + stats[provider].failure IN
         IF total = 0 THEN Rat(1, 1)
         ELSE LET successRate == Rat(stats[provider].success, total)
                  avgLatency == Rat(stats[provider].totalLatency, total)
                  latencyScore == RatSub(Rat(1, 1), RatMul(avgLatency, Rat(1, 5000)))
              IN RatAdd(RatMul(successRate, Rat(7, 10)), RatMul(latencyScore, Rat(3, 10)))

\* getProviderScore, on the rationals (the rounding of the doubles is left
\* out: 1 * 0.7 + 0 * 0.3 is the double 0.7, and no sum exceeds 0.7 + 0.3).
getProviderScore(stats, provider) ==
    IF provider \notin DOMAIN stats THEN Rat(1, 1)
    ELSE LET total == stats[provider].success + stats[provider].failure IN
         IF total = 0 THEN Rat(1, 1)
         ELSE LET successRate == Rat(stats[provider].success, total)
                  avgLatency == Rat(stats[provider].totalLatency, total)
                  latencyScore == RatMax0(RatSub(Rat(1, 1), RatMul(avgLatency, Rat(1, 5000))))
              IN RatAdd(RatMul(successRate, Rat(7, 10)), RatMul(latencyScore, Rat(3, 10)))

\* The providers updateProviderStats is called for, one of them not tracked.
StatProviders == {"crypto", "weather", "unknown"}

\* serviceLatency of these requests, in ms
StatLatencies == {0, 5000, 10000}

\* The provider_stats table a previous run of the gateway left behind.
PersistedTables ==
    { EmptyTable,
      "crypto" :> [success |-> 1, failure |-> 0, total_latency_ms |-> 5000],
      ("crypto" :> [success |-> 0, failure |-> 1, total_latency_ms |-> 10000])
         @@ ("legacy" :> [success |-> 1, failure |-> 0, total_latency_ms |-> 0]) }

StatsFrame == UNCHANGED <<env, now, agent, chainTxs, transactions, served, lastReq,
                          usedTxHashes, payments, apis, proxy, authorizationState,
                          fac, lastCall, rateLimit>>

\* A request reaches one of the updateProviderStats calls of /agent/x402.
StatsUpdate ==
    /\ reqCount < MaxUpdates
    /\ reqCount' = reqCount + 1
    /\ \E provider \in StatProviders, success \in BOOLEAN, latencyMs \in StatLatencies :
        UpdateProviderStats(provider, success, latencyMs)
    /\ UNCHANGED startup
    /\ StatsFrame

\* db.loadProviderStats: the SELECT is answered with the rows of the table,
\* or fails (catch: return {}).
StatsLoadQueried ==
    /\ startup.pc = "loading"
    /\ \E fails \in BOOLEAN :
        /\ startup' = [pc |-> "loaded",
                       loadedStats |->
                          IF fails THEN EmptyTable
                          ELSE [p \in DOMAIN db.provider_stats |->
                                  [success |-> db.provider_stats[p].success,
                                   failure |-> db.provider_stats[p].failure,
                                   totalLatency |-> db.provider_stats[p].total_latency_ms]]]
        /\ db' = [db EXCEPT !.errors = @ \/ fails]
    /\ UNCHANGED <<reqCount, providerStats>>
    /\ StatsFrame

\* The startup load resumes: for (const [provider, stats] of
\* Object.entries(loadedStats)) if (providerStats[provider]) providerStats[provider] = stats
StatsLoadApplied ==
    /\ startup.pc = "loaded"
    /\ providerStats' = [p \in DOMAIN providerStats |->
                            IF p \in DOMAIN startup.loadedStats
                            THEN startup.loadedStats[p]
                            ELSE providerStats[p]]
    /\ startup' = [startup EXCEPT !.pc = "done"]
    /\ UNCHANGED <<reqCount, db>>
    /\ StatsFrame

InitStats ==
    /\ env = [DEMO_WALLET_ADDRESS |-> Some(DemoWalletAddress), EXECUTOR_PRIVATE_KEY |-> TRUE]
    /\ now = StartTime
    /\ agent = AgentIdle
    /\ reqCount = 0
    /\ providerStats = DefaultStats
    /\ chainTxs = <<>>
    /\ transactions = <<>>
    /\ IdleRest
    /\ db \in { [provider_stats |-> t, inflight |-> <<>>, errors |-> FALSE] :
                    t \in PersistedTables }
    /\ startup = [pc |-> "loading", loadedStats |-> EmptyTable]
    /\ lastCall = None
    /\ rateLimit = RateLimitEmpty

NextStats ==
    \/ StatsUpdate
    \/ StatsLoadQueried
    \/ StatsLoadApplied
    \/ PersistSettles

SpecStats == InitStats /\ [][NextStats]_vars

\* The ids getProviderScore is asked about: the tracked ones and two others.
ScoredProviders == DOMAIN providerStats \cup {"unknown", "legacy"}

observations(p) == providerStats[p].success + providerStats[p].failure

\* C15: the score of a provider without observations, and of an id that is
\* not tracked, is exactly 1; no score is the NaN of a division by zero.
C15_ScoreOfUnobservedIsOne ==
    \A p \in ScoredProviders :
        /\ getProviderScore(providerStats, p) # NaN
        /\ (p \notin DOMAIN providerStats \/ observations(p) = 0)
              => getProviderScore(providerStats, p) = Rat(1, 1)

\* C15 witness: one provider has been updated, another has no observation
\* and scores 1.
C15_Witness ==
    /\ observations("crypto") > 0
    /\ observations("weather") = 0
    /\ getProviderScore(providerStats, "weather") = Rat(1, 1)
    /\ getProviderScore(providerStats, "unknown") = Rat(1, 1)

\* C16: the score of an observed provider is
\* 0.7 * successRate + 0.3 * max(0, 1 - avgLatencyMs / 5000), written here
\* over the denominator 50000 * total; it lies in [0, 1]; it is 0.7 when
\* every call succeeded with an average latency of 5000; and from an average
\* latency of 5000 on it is 0.7 * successRate, whatever the latency.
C16_ScoreFormula ==
    \A p \in DOMAIN providerStats :
        observations(p) > 0 =>
            LET st == providerStats[p]
                total == observations(p)
                headroom == 5000 * total - st.totalLatency
                score == getProviderScore(providerStats, p)
            IN /\ score = Rat(35000 * st.success + 3 * (IF headroom > 0 THEN headroom ELSE 0),
                              50000 * total)
               /\ 0 <= score.n /\ score.n <= score.d
               /\ (st.success = total /\ st.totalLatency = 5000 * total)
                     => score = Rat(7, 10)
               /\ st.totalLatency >= 5000 * total
                     => score = Rat(7 * st.success, 10 * total)

\* C16 witness: a provider whose calls all succeeded with an average latency
\* of 5000, and one with an average latency above 5000.
C16_Witness ==
    /\ observations("crypto") > 0
    /\ providerStats["crypto"].success = observations("crypto")
    /\ providerStats["crypto"].totalLatency = 5000 * observations("crypto")
    /\ getProviderScore(providerStats, "crypto") = Rat(7, 10)
    /\ observations("weather") > 0
    /\ providerStats["weather"].totalLatency > 5000 * observations("weather")

\* C17: in no step does a tracked provider lose its entry, or its success
\* or failure count decrease.
C17_CountsNeverDecrease ==
    [][\A p \in DOMAIN providerStats :
          /\ p \in DOMAIN providerStats'
          /\ providerStats'[p].success >= providerStats[p].success
          /\ providerStats'[p].failure >= providerStats[p].failure]_vars

\* The counters the provider_stats table holds for provider p, a provider
\* without a row having none counted.
persistedStats(p) ==
    IF p \in DOMAIN db.provider_stats
    THEN [success |-> db.provider_stats[p].success,
          failure |-> db.provider_stats[p].failure,
          totalLatency |-> db.provider_stats[p].total_latency_ms]
    ELSE [success |-> 0, failure |-> 0, totalLatency |-> 0]

\* C37: once the startup load and every issued persistProviderStats call
\* have completed (here: without a database error), the persisted counters
\* of every tracked provider equal its in-memory providerStats counters.
C37_PersistedEqualsInMemory ==
    (startup.pc = "done" /\ db.inflight = <<>> /\ ~db.errors)
        => \A p \in DOMAIN providerStats : persistedStats(p) = providerStats[p]

----------------------------------------------------------------------------
(* rateLimitMiddleware *)

RATE_LIMIT_WINDOW == 60000  \* ms
RATE_LIMIT_MAX == 2         \* process.env.RATE_LIMIT_MAX
MaxRateRequests == 4        \* requests in a run
MaxRateTicks == 6           \* clock steps in a run, a third of the window each

\* Date.now() in ms, the clock counting seconds.
DateNow == now * 1000

\* rateLimitMiddleware counting the requests it answers 429 as well.
rateLimitMiddlewareCountsRejected(map, ip, t) ==
    IF map[ip] = None
    THEN [map |-> [map EXCEPT ![ip] = Some([count |-> 1,
                                            resetTime |-> t + RATE_LIMIT_WINDOW])],
          status |-> 0]
    ELSE LET limit == Get(map[ip]) IN
         IF t > limit.resetTime
         THEN [map |-> [map EXCEPT ![ip] = Some([count |-> 1,
                                                 resetTime |-> t + RATE_LIMIT_WINDOW])],
               status |-> 0]
         ELSE [map |-> [map EXCEPT ![ip] = Some([limit EXCEPT !.count = @ + 1])],
               status |-> IF limit.count >= RATE_LIMIT_MAX THEN 429 ELSE 0]

\* rateLimitMiddleware(req, res, next) for a request from ip at time t (ms):
\* the Map afterwards and the status answered, 0 when it calls next().
rateLimitMiddleware(map, ip, t) ==
    IF map[ip] = None
    THEN [map |-> [map EXCEPT ![ip] = Some([count |-> 1,
                                            resetTime |-> t + RATE_LIMIT_WINDOW])],
          status |-> 0]
    ELSE LET limit == Get(map[ip]) IN
         IF t > limit.resetTime
         THEN [map |-> [map EXCEPT ![ip] = Some([count |-> 1,
                                                 resetTime |-> t + RATE_LIMIT_WINDOW])],
               status |-> 0]
         ELSE IF limit.count >= RATE_LIMIT_MAX
         THEN [map |-> map, status |-> 429]
         ELSE [map |-> [map EXCEPT ![ip] = Some([limit EXCEPT !.count = @ + 1])],
               status |-> 0]

RateFrame == UNCHANGED <<env, agent, reqCount, providerStats, chainTxs, transactions,
                         served, lastReq, usedTxHashes, payments, apis, proxy,
                         authorizationState, fac, db, startup, lastCall>>

\* A request from ip reaches the gateway.
RateLimitRequest ==
    /\ rateLimit.requests < MaxRateRequests
    /\ \E ip \in Ips :
        LET r == rateLimitMiddleware(rateLimit.map, ip, DateNow) IN
        rateLimit' = [map |-> r.map,
                      passed |-> IF r.status = 0
                                 THEN Append(rateLimit.passed, [ip |-> ip, at |-> DateNow])
                                 ELSE rateLimit.passed,
                      requests |-> rateLimit.requests + 1,
                      status |-> IF r.status = 0 THEN 200 ELSE r.status,
                      ip |-> ip]
    /\ UNCHANGED now
    /\ RateFrame

\* A third of the window passes.
RateTick ==
    /\ now < StartTime + MaxRateTicks * (RATE_LIMIT_WINDOW \div 3000)
    /\ now' = now + RATE_LIMIT_WINDOW \div 3000
    /\ UNCHANGED rateLimit
    /\ RateFrame

InitRateLimit ==
    /\ env = [DEMO_WALLET_ADDRESS |-> Some(DemoWalletAddress), EXECUTOR_PRIVATE_KEY |-> TRUE]
    /\ now = StartTime
    /\ agent = AgentIdle
    /\ reqCount = 0
    /\ providerStats = DefaultStats
    /\ chainTxs = <<>>
    /\ transactions = <<>>
    /\ IdleRest
    /\ StatsLoaded

NextRateLimit == RateLimitRequest \/ RateTick

SpecRateLimit == InitRateLimit /\ [][NextRateLimit]_vars

\* The requests from ip passed on within the window that starts at t (ms).
passedWithin(ip, t) ==
    { j \in DOMAIN rateLimit.passed :
        /\ rateLimit.passed[j].ip = ip
        /\ t <= rateLimit.passed[j].at
        /\ rateLimit.passed[j].at < t + RATE_LIMIT_WINDOW }

\* C30: in no 60-second interval are more than RATE_LIMIT_MAX requests from
\* one IP passed on, and a request is either passed on or answered 429.
C30_AtMostMaxPerWindow ==
    /\ rateLimit.status \in {0, 200, 429}
    /\ \A i \in DOMAIN rateLimit.passed :
        Cardinality(passedWithin(rateLimit.passed[i].ip, rateLimit.passed[i].at))
            <= RATE_LIMIT_MAX

\* C31: each IP's count is between 1 and RATE_LIMIT_MAX; a request answered
\* 429 changes neither count nor resetTime; the first request that arrives
\* after resetTime starts a new window with count 1.
C31_CountWithinLimit ==
    /\ [](\A ip \in Ips :
            rateLimit.map[ip] # None =>
                /\ 1 <= Get(rateLimit.map[ip]).count
                /\ Get(rateLimit.map[ip]).count <= RATE_LIMIT_MAX)
    /\ [][rateLimit'.requests = rateLimit.requests + 1 =>
            LET ip == rateLimit'.ip IN
            /\ \A other \in Ips \ {ip} : rateLimit'.map[other] = rateLimit.map[other]
            /\ rateLimit'.status = 429 => rateLimit'.map = rateLimit.map
            /\ (rateLimit.map[ip] # None /\ DateNow > Get(rateLimit.map[ip]).resetTime) =>
                  /\ rateLimit'.status = 200
                  /\ rateLimit'.map[ip] =
                        Some([count |-> 1, resetTime |-> DateNow + RATE_LIMIT_WINDOW])
       ]_vars

\* C31 witness: an IP that used up a window, started a new one after its
\* resetTime and used that up too has been answered 429.
C31_Witness ==
    /\ rateLimit.status = 429
    /\ rateLimit.map[rateLimit.ip] # None
    /\ Get(rateLimit.map[rateLimit.ip]).count = RATE_LIMIT_MAX
    /\ Get(rateLimit.map[rateLimit.ip]).resetTime
          > StartTime * 1000 + RATE_LIMIT_WINDOW

====
